---- MODULE Spec2Model ----
(***************************************************************************)
(* Verification model of popeflizzy/CryptoArbitrageBot.                    *)
(*                                                                         *)
(* The repository holds several independent programs; each gets its own   *)
(* specification over the variables it owns (the others stay unchanged):   *)
(*                                                                         *)
(*   SpecLog   websockets/binance_client.py (same code in coinbase_client  *)
(*             and multi_runner): the bounded log queue, its producers    *)
(*             (enqueue_log) and its consumer (async_file_writer).        *)
(*   SpecScan  websockets/arbitrage_engine.py: one scan tick over the     *)
(*             books held by websockets/orderbook_manager.py.             *)
(*   SpecSOB   core/orderbook_manager.py, class SimpleOrderBook.          *)
(*   SpecBook  core/orderbook_manager.py, class OrderbookManager.         *)
(*                                                                         *)
(* Floats are modelled by integers: prices and sizes are whole numbers,   *)
(* fees and the threshold are counted in units of 1/1000.                 *)
(***************************************************************************)
EXTENDS Integers, Sequences, FiniteSets, TLC

VARIABLES
    \* ---- binance_client.py: log queue ----
    log_queue,      \* asyncio.Queue(maxsize=LOG_QUEUE_MAXSIZE): sequence of producer names
                    \* (SpecLog) or of LogLine items (the stream clients)
    prodPc,         \* per producer task: "run" or "put_wait" (suspended inside log_queue.put)
    putCalls,       \* history: number of enqueue_log calls started
    putReturned,    \* history: number of enqueue_log calls that have returned
    dropped,        \* history: number of times enqueue_log took its "dropping log line" branch
    written,        \* history: number of lines async_file_writer has taken off the queue
    \* ---- websockets/orderbook_manager.py + arbitrage_engine.py ----
    books,          \* OrderBookManager.books: dict in insertion order, a sequence of
                    \* [ex, best_bid, best_ask] entries with distinct ex
    threshold,      \* arbitrage_engine argument, in units of 1/1000
    fee_buy,        \* arbitrage_engine argument, in units of 1/1000
    fee_sell,       \* arbitrage_engine argument, in units of 1/1000
    enginePc,       \* "start" (first sleep), "sleep" (between ticks), "append" (awaiting a CSV
                    \* append), "raised" (ended by an exception), "cancelled" (returned
                    \* after a cancel); "acquire", "copy" and "scan" where the tick is
                    \* taken step by step
    books_snapshot, \* the copy of books the current tick took under the lock
    opportunities,  \* the opportunities list of the current tick
    rowIdx,         \* index in opportunities of the row being appended to the CSV
    \* ---- core/orderbook_manager.py: a SimpleOrderBook on its own ----
    sob,            \* the SimpleOrderBook: [bids, asks], each a price -> size mapping
    sobHist,        \* history: the last (at most two) apply_update calls since the last query
    sobBase,        \* history: the book as it was before the calls in sobHist
    sobRet,         \* the value returned by top_n when it was the last call
    sobBest,        \* the last best_bid / best_ask call and the value it returned
    \* ---- core/orderbook_manager.py: the OrderbookManager ----
    orderbooks,     \* OrderbookManager.orderbooks: exchange -> SimpleOrderBook
    mgrCall,        \* history: the last call, [op, ex, kind, raised]
    mgrLevelwise,   \* history: the book of mgrCall.ex had every well-formed level of
                    \* the last message been applied by itself (see LevelwiseBook)
    mgrRet,         \* the value returned by get_snapshot when it was the last call
    mgr_enqueue_log, \* OrderbookManager.enqueue_log: the kind of function installed
    \* ---- websockets/orderbook_manager.py: consume_queue, monitor_loop and the lock ----
    queue,          \* the asyncio.Queue handed to consume_queue: sequence of messages
    sent,           \* per producer: number of updates it has put so far (its clock)
    lock,           \* OrderBookManager._lock: "free" or the task holding it
    consPc,         \* consume_queue: "get", "acquire", "write", "report"
    consMsg,        \* consume_queue: the message taken by the last queue.get()
    monPc,          \* monitor_loop: "sleep", "acquire", "summary"
    lockBooks,      \* history: books as they were when the engine last took the lock
    lastDeq,        \* history: per exchange, the last valid message dequeued for it
    unfinished,     \* the queue's count of unfinished items (put but not yet task_done)
    \* ---- execution/simulator.py: TradeSimulator ----
    simNow,         \* the value time.time() returns
    last_trade_time,\* TradeSimulator.last_trade_time
    trade_id,       \* TradeSimulator.trade_id
    cumulative_pnl, \* TradeSimulator.cumulative_pnl, in units of PnlUnit
    simRows,        \* history: the times of the last two rows written to the CSV
    simLast,        \* history: the last signal handled and what became of it
    simPc,          \* handle_signal: "run", or "raised" once an exception has ended it
    \* ---- binance_client.py / coinbase_client.py: handle_stream ----
    attempt,        \* per stream: handle_stream's attempt counter
    streamPc,       \* per stream: "connect", "ratelimit" (the sleep before a subscribe),
                    \* "subscribe", "stream" (waiting for a frame), "put" (suspended in
                    \* log_queue.put), "backoff", "exited" (returned), "cancelling"
                    \* (cancel() called on the task), "cancelled"
    delay,          \* per stream: the wait of the exponential_backoff in progress,
                    \* [base (seconds), jitter (milliseconds)]
    failures,       \* history, per stream: consecutive failures since the last success
    prevBase,       \* history, per stream: base of the previous wait that was completed
    recent,         \* per stream: time.time() - last_subscribe_ts < SUBSCRIBE_RATE_LIMIT_SECONDS
    \* ---- binance_client.py: shutdown ----
    stop_event,     \* stop_event.is_set()
    mainPc,         \* main: "wait_stop", "gather", "join", "join_woken" (join's wait is
                    \* over, main has not run yet), "gather_rest", "complete"
    writerPc,       \* async_file_writer: "run", "exited", "cancelled"
    hbPc,           \* heartbeat_logger: "sleep", "put", "exited", "cancelled"
    \* ---- okx_client.py: run_okx ----
    okxPc,          \* "connect", "subscribe", "stream", "sleep"
    backoff,        \* run_okx's backoff, in seconds
    okxSleep,       \* the length of the asyncio.sleep(backoff) in progress, 0 when none
    okxFailures,    \* history: consecutive failures since the last success (at most MaxAttempt)
    okxRecent       \* run_okx subscribed less than SUBSCRIBE_RATE_LIMIT_SECONDS ago

logVars == <<log_queue, prodPc, putCalls, putReturned, dropped, written>>
scanVars == <<books, threshold, fee_buy, fee_sell, enginePc, books_snapshot,
              opportunities, rowIdx>>

sobVars == <<sob, sobHist, sobBase, sobRet, sobBest>>

mgrVars == <<orderbooks, mgrCall, mgrLevelwise, mgrRet, mgr_enqueue_log>>

storeVars == <<queue, sent, lock, consPc, consMsg, monPc, lockBooks, lastDeq, unfinished>>

simVars == <<simNow, last_trade_time, trade_id, cumulative_pnl, simRows, simLast, simPc>>

streamVars == <<attempt, streamPc, delay, failures, prevBase, recent>>
shutVars == <<stop_event, mainPc, writerPc, hbPc>>
okxVars == <<okxPc, backoff, okxSleep, okxFailures, okxRecent>>
netVars == <<streamVars, shutVars, okxVars>>

\* the history variables of the log queue, and the variables of the other programs
logHist == <<prodPc, putCalls, putReturned, dropped, written>>
restVars == <<scanVars, sobVars, mgrVars, storeVars, simVars>>

vars == <<logVars, scanVars, sobVars, mgrVars, storeVars, simVars, netVars>>

(***************************************************************************)
(* Bounds of the model.                                                    *)
(***************************************************************************)
\* capacity of the bounded log queue (LOG_QUEUE_MAXSIZE is 10000 in the code)
LogQueueCap == 2
\* number of enqueue_log calls one run makes
MaxBurst == 5
\* largest n asked of top_n / get_snapshot
MaxN == 3
\* number of levels one message handed to process_message lists
MaxLevels == 2
MaxSent == 2
MaxQueue == 2
\* the last second the simulator's clock reaches
MaxTime == 17
\* consecutive failures of one stream
MaxAttempt == 6
\* consecutive failures of one stream where several tasks run side by side
MaxIsoAttempt == 1
\* levels per side of an OKX books5 frame
MaxOkxLevels == 2

(***************************************************************************)
(* binance_client.py: the log queue                                        *)
(***************************************************************************)
\* the tasks that call enqueue_log: the three handle_stream tasks and heartbeat_logger
LogProducers == {"trades", "ticker", "orderbook", "heartbeat"}

\* asyncio.Queue.full()
QueueFull(q) == Len(q) >= LogQueueCap

\* the arbitrage engine's variables while the program modelled is another one
InitScanIdle ==
    /\ books = <<>>
    /\ threshold = 0
    /\ fee_buy = 0
    /\ fee_sell = 0
    /\ enginePc = "start"
    /\ books_snapshot = <<>>
    /\ opportunities = <<>>
    /\ rowIdx = 0

\* SimpleOrderBook.__init__: both mappings empty; nothing called yet
EmptyMap == [p \in {} |-> 0]
EmptyBook == [bids |-> EmptyMap, asks |-> EmptyMap]
NoRet == [n |-> -1, bids |-> <<>>, asks |-> <<>>]
\* the None that best_bid / best_ask return, and no call made
NoLevel == [none |-> TRUE, price |-> 0, size |-> 0]
NoBest == [op |-> "none", ret |-> NoLevel]
InitSOBVars ==
    /\ sob = EmptyBook
    /\ sobHist = <<>>
    /\ sobBase = EmptyBook
    /\ sobRet = NoRet
    /\ sobBest = NoBest

\* OrderbookManager.__init__: one empty SimpleOrderBook per known exchange
KnownExchanges == {"binance", "coinbase"}
\* raised: the call ended in an exception; spread: it reached the trailing
\* "self._compute_and_log_spread()" and built the spread record; logged: the
\* number of spread records the call handed to the log (queue or file)
NoCall ==
    [op |-> "none", ex |-> "", kind |-> "", raised |-> FALSE, spread |-> FALSE,
     logged |-> 0]
NoSnapshot == [n |-> <<"none", 0>>, bids |-> <<>>, asks |-> <<>>]
InitMgrVars ==
    /\ orderbooks = [ex \in KnownExchanges |-> EmptyBook]
    /\ mgrCall = NoCall
    /\ mgrLevelwise = EmptyBook
    /\ mgrRet = NoSnapshot
    /\ mgr_enqueue_log = "none"

\* one producer task per exchange puts normalized updates on the queue
StoreProducers == {"okx", "binance"}
\* a message as consume_queue sees it: a dict (with its exchange, best prices
\* and timestamp; exchange "" when the key is missing) or something else
Msg(isdict, ex, bid, ask, ts) ==
    [isdict |-> isdict, exchange |-> ex, best_bid |-> bid, best_ask |-> ask, timestamp |-> ts]
NoMsg == Msg(FALSE, "", <<"none", 0>>, <<"none", 0>>, 0)
\* monitor_loop prints no "Best bid" line: an empty store, or no numeric bid or ask
NoReport ==
    [best |-> FALSE, arbitrage |-> FALSE, sell_ex |-> "", buy_ex |-> "",
     best_bid |-> 0, best_ask |-> 0]
\* OrderBookManager.__init__ and the three tasks before their first step
InitStoreVars ==
    /\ queue = <<>>
    /\ sent = [p \in StoreProducers |-> 0]
    /\ lock = "free"
    /\ consPc = "get"
    /\ consMsg = NoMsg
    /\ monPc = "sleep"
    /\ lockBooks = <<>>
    /\ lastDeq = [p \in StoreProducers |-> NoMsg]
    /\ unfinished = 0

\* COOLDOWN_SECONDS (its default)
COOLDOWN_SECONDS == 5
\* the last signal handled: when it came, what became of it, and the time of
\* the last CSV row (0: none) and cumulative_pnl as they were before it
NoSignal == [time |-> 0, outcome |-> "none", rowBefore |-> 0, pnlBefore |-> 0]
\* TradeSimulator.__init__; time.time() is seconds since 1970, far beyond
\* COOLDOWN_SECONDS
InitSimVars ==
    /\ simNow = COOLDOWN_SECONDS
    /\ last_trade_time = 0
    /\ trade_id = 0
    /\ cumulative_pnl = 0
    /\ simRows = <<>>
    /\ simLast = NoSignal
    /\ simPc = "run"

\* the streams main() starts a handle_stream task for
Streams == {"trades", "ticker", "orderbook"}
\* handle_stream, main, async_file_writer, heartbeat_logger and run_okx before
\* their first step; delay is the wait of the backoff in progress: base in
\* seconds, jitter in milliseconds. last_subscribe_ts starts at 0.0, far in
\* the past of time.time().
InitNetVars ==
    /\ attempt = [st \in Streams |-> 0]
    /\ streamPc = [st \in Streams |-> "connect"]
    /\ delay = [st \in Streams |-> [base |-> 0, jitter |-> 0]]
    /\ failures = [st \in Streams |-> 0]
    /\ prevBase = [st \in Streams |-> 0]
    /\ recent = [st \in Streams |-> FALSE]
    /\ stop_event = FALSE
    /\ mainPc = "wait_stop"
    /\ writerPc = "run"
    /\ hbPc = "sleep"
    /\ okxPc = "connect"
    /\ backoff = 1
    /\ okxSleep = 0
    /\ okxFailures = 0
    /\ okxRecent = FALSE

\* the log queue's variables right after the module is imported
InitLogVars ==
    /\ log_queue = <<>>
    /\ prodPc = [p \in LogProducers |-> "run"]
    /\ putCalls = 0
    /\ putReturned = 0
    /\ dropped = 0
    /\ written = 0

InitLog ==
    /\ InitLogVars
    /\ InitScanIdle
    /\ InitSOBVars
    /\ InitMgrVars
    /\ InitStoreVars
    /\ InitSimVars
    /\ InitNetVars

\* enqueue_log: "await log_queue.put((path, text))". Queue.put never raises
\* asyncio.QueueFull (only put_nowait does): on a full queue it suspends the
\* caller until a slot is free, so the except branch that drops the line is
\* never taken and `dropped` is never incremented.
enqueue_log(p) ==
    /\ prodPc[p] = "run"
    /\ putCalls < MaxBurst
    /\ putCalls' = putCalls + 1
    /\ IF QueueFull(log_queue)
          THEN /\ prodPc' = [prodPc EXCEPT ![p] = "put_wait"]
               /\ UNCHANGED <<log_queue, putReturned>>
          ELSE /\ log_queue' = Append(log_queue, p)
               /\ putReturned' = putReturned + 1
               /\ UNCHANGED prodPc
    /\ UNCHANGED <<dropped, written, scanVars, sobVars, mgrVars,
                   storeVars, simVars, netVars>>

\* Queue.put resumes once the consumer has freed a slot, stores the item and returns
put_resume(p) ==
    /\ prodPc[p] = "put_wait"
    /\ ~QueueFull(log_queue)
    /\ log_queue' = Append(log_queue, p)
    /\ prodPc' = [prodPc EXCEPT ![p] = "run"]
    /\ putReturned' = putReturned + 1
    /\ UNCHANGED <<putCalls, dropped, written, scanVars, sobVars, mgrVars,
                   storeVars, simVars, netVars>>

\* async_file_writer: one iteration that got an item: write, flush, task_done
async_file_writer ==
    /\ log_queue # <<>>
    /\ log_queue' = Tail(log_queue)
    /\ written' = written + 1
    /\ UNCHANGED <<prodPc, putCalls, putReturned, dropped, scanVars, sobVars, mgrVars,
                   storeVars, simVars, netVars>>

NextLog ==
    \/ \E p \in LogProducers : enqueue_log(p)
    \/ \E p \in LogProducers : put_resume(p)
    \/ async_file_writer

SpecLog == InitLog /\ [][NextLog]_vars

(***************************************************************************)
(* websockets/arbitrage_engine.py: one scan tick                           *)
(***************************************************************************)
\* A stored best_bid / best_ask is a tagged value: a number, None (missing)
\* or a value that is not a number (a string).
Num(n) == <<"num", n>>
NoneVal == <<"none", 0>>
StrVal == <<"str", 0>>

\* prices the venues quote; 0 makes net_cost 0
Prices == {0, 100, 101}
Exchanges == {"okx", "binance", "coinbase"}
Fees == {0, 1}
Thresholds == {0, 1}

\* isinstance(v, (int, float))
IsNumber(v) == v[1] = "num"
\* float(v) of a number
Float(v) == v[2]

\* mutant: "or" in place of "and"
IsValidBook_or(d) == IsNumber(d.best_bid) \/ IsNumber(d.best_ask)

\* "if isinstance(bid, (int, float)) and isinstance(ask, (int, float))"
IsValidBook(d) == IsNumber(d.best_bid) /\ IsNumber(d.best_ask)

\* the dict `valid`, in the order of books_snapshot
ValidBooks(snapshot) == SelectSeq(snapshot, IsValidBook)

\* net_receive = sell_price * (1 - fee_sell), times 1000
net_receive(sell_price) == sell_price * (1000 - fee_sell)
\* mutant: the buy fee is subtracted from the cost
net_cost_minus(buy_price) == buy_price * (1000 - fee_buy)

\* net_cost = buy_price * (1 + fee_buy), times 1000
net_cost(buy_price) == buy_price * (1000 + fee_buy)
\* net_spread = net_receive - net_cost, times 1000
net_spread(sell_price, buy_price) == net_receive(sell_price) - net_cost(buy_price)

\* mutant: "profit_pct > threshold"
ProfitMeetsThreshold_strict(sell_price, buy_price) ==
    LET nc == net_cost(buy_price)
        ns == net_spread(sell_price, buy_price)
    IN  IF nc = 0 THEN 0 > threshold
        ELSE IF nc > 0 THEN ns * 1000 > threshold * nc
        ELSE ns * 1000 < threshold * nc

\* "profit_pct = (net_spread / net_cost) if net_cost != 0 else 0.0" followed by
\* "if profit_pct >= threshold": the quotient is compared without rounding
ProfitMeetsThreshold(sell_price, buy_price) ==
    LET nc == net_cost(buy_price)
        ns == net_spread(sell_price, buy_price)
    IN  IF nc = 0 THEN 0 >= threshold
        ELSE IF nc > 0 THEN ns * 1000 >= threshold * nc
        ELSE ns * 1000 =< threshold * nc

\* the opportunity dict appended for a pair
Opportunity(sell, buy) ==
    [sell_ex |-> sell.ex, buy_ex |-> buy.ex,
     sell_price |-> Float(sell.best_bid), buy_price |-> Float(buy.best_ask)]

\* mutant: the self-pair test is missing
SkipPair_never(sell, buy) == FALSE

\* "if sell_ex == buy_ex: continue"
SkipPair(sell, buy) == sell.ex = buy.ex

\* the two nested loops over valid.items(), from position (i, j) on
RECURSIVE ScanPairs(_, _, _)
ScanPairs(valid, i, j) ==
    IF i > Len(valid) THEN <<>>
    ELSE IF j > Len(valid) THEN ScanPairs(valid, i + 1, 1)
    ELSE IF SkipPair(valid[i], valid[j]) THEN ScanPairs(valid, i, j + 1)
    ELSE IF ProfitMeetsThreshold(Float(valid[i].best_bid), Float(valid[j].best_ask))
         THEN <<Opportunity(valid[i], valid[j])>> \o ScanPairs(valid, i, j + 1)
         ELSE ScanPairs(valid, i, j + 1)

\* the body of one loop iteration up to the first await of a CSV append:
\* "if len(exchanges) < 2: continue", then valid, then the pair loops
ScanTick(snapshot) ==
    IF Len(snapshot) < 2 THEN <<>> ELSE ScanPairs(ValidBooks(snapshot), 1, 1)

\* the (best_bid, best_ask) pairs a stored book may hold: every pair of
\* prices, and books with a missing or non-numeric side
Quotes ==
    {<<Num(b), Num(a)>> : b \in Prices, a \in Prices}
    \cup {<<NoneVal, Num(100)>>, <<Num(101), StrVal>>, <<NoneVal, NoneVal>>}

\* every dict the store can hold: distinct exchanges in some insertion order
RECURSIVE BookLists(_)
BookLists(exs) ==
    {<<>>} \cup
    UNION { { <<[ex |-> e, best_bid |-> q[1], best_ask |-> q[2]]>> \o rest :
                q \in Quotes, rest \in BookLists(exs \ {e}) } : e \in exs }

\* the engine is started over a store that the consumer has filled
InitScan ==
    /\ InitLogVars
    /\ InitSOBVars
    /\ InitMgrVars
    /\ InitStoreVars
    /\ InitSimVars
    /\ InitNetVars
    /\ books \in BookLists(Exchanges)
    /\ threshold \in Thresholds
    /\ fee_buy \in Fees
    /\ fee_sell \in Fees
    /\ enginePc = "start"
    /\ books_snapshot = <<>>
    /\ opportunities = <<>>
    /\ rowIdx = 0

\* one iteration of "while True" after the sleep: copy the books under the lock,
\* build the opportunities, and reach the first CSV append (or the next sleep)
arbitrage_tick ==
    /\ enginePc \in {"start", "sleep"}
    /\ books_snapshot' = books
    /\ opportunities' = ScanTick(books)
    /\ rowIdx' = IF opportunities' = <<>> THEN 0 ELSE 1
    /\ enginePc' = IF opportunities' = <<>> THEN "sleep" ELSE "append"
    /\ UNCHANGED <<books, threshold, fee_buy, fee_sell, logVars, sobVars, mgrVars,
                   storeVars, simVars, netVars>>

\* "await _append_csv_row(logfile, row, header=header)" completes for one row
append_csv_row ==
    /\ enginePc = "append"
    /\ IF rowIdx < Len(opportunities)
          THEN rowIdx' = rowIdx + 1 /\ enginePc' = "append"
          ELSE rowIdx' = 0 /\ enginePc' = "sleep"
    /\ UNCHANGED <<books, threshold, fee_buy, fee_sell, books_snapshot,
                   opportunities, logVars, sobVars, mgrVars,
                   storeVars, simVars, netVars>>

\* "await _append_csv_row(...)" raises (the write in the thread failed): the
\* exception reaches "except Exception as e: print(...); raise" and ends the task
append_csv_fail ==
    /\ enginePc = "append"
    /\ enginePc' = "raised"
    /\ UNCHANGED <<books, threshold, fee_buy, fee_sell, books_snapshot,
                   opportunities, rowIdx, logVars, sobVars, mgrVars,
                   storeVars, simVars, netVars>>

\* the task is cancelled after its first tick, in "await asyncio.sleep(interval)"
\* or while it awaits the append of row rowIdx: "except asyncio.CancelledError:
\* print(...); return". asyncio.to_thread leaves a write that has begun in
\* its thread to finish (landed) and drops one that has not; in "cancelled"
\* the rows of the last tick that were written are those before rowIdx.
engine_cancel(landed) ==
    /\ enginePc \in {"sleep", "append"}
    /\ enginePc' = "cancelled"
    /\ rowIdx' = IF enginePc = "append" /\ landed THEN rowIdx + 1 ELSE rowIdx
    /\ UNCHANGED <<books, threshold, fee_buy, fee_sell, books_snapshot,
                   opportunities, logVars, sobVars, mgrVars,
                   storeVars, simVars, netVars>>

NextScan ==
    \/ arbitrage_tick
    \/ append_csv_row
    \/ append_csv_fail
    \/ \E landed \in BOOLEAN : engine_cancel(landed)

SpecScan == InitScan /\ [][NextScan]_vars

\* the values a caller may hand over as threshold, fee_buy and fee_sell, in
\* units of 1/1000
OptionValues == {-1, 0, 1}
ConfigExchanges == {"okx", "binance"}

\* arbitrage_engine called with any threshold and fees: its body begins with
\* the header list, a print and the loop
InitConfig ==
    /\ InitLogVars
    /\ InitSOBVars
    /\ InitMgrVars
    /\ InitStoreVars
    /\ InitSimVars
    /\ InitNetVars
    /\ books \in BookLists(ConfigExchanges)
    /\ threshold \in OptionValues
    /\ fee_buy \in OptionValues
    /\ fee_sell \in OptionValues
    /\ enginePc = "start"
    /\ books_snapshot = <<>>
    /\ opportunities = <<>>
    /\ rowIdx = 0

SpecConfig == InitConfig /\ [][NextScan]_vars

(***************************************************************************)
(* websockets/orderbook_manager.py with arbitrage_engine.py: the store,    *)
(* its lock and the three tasks that use it                                *)
(***************************************************************************)
\* The event loop runs a task without interruption from one await to the next.
\* The tasks below are cut at every await and at every lock acquisition, so
\* the interleavings of the event loop are among those of this specification.

\* best prices the producers report: okx either pair, the other venue one
StoreQuotes == {<<Num(101), Num(101)>>, <<Num(100), Num(100)>>}
ProducerQuotes(p) == IF p = "okx" THEN StoreQuotes ELSE {<<Num(100), Num(100)>>}
\* what a put on the queue may carry besides a normalized update: a value that
\* is not a dict, and a dict without an exchange
StrayMsgs == {Msg(FALSE, "", NoneVal, NoneVal, 0), Msg(TRUE, "", Num(100), Num(100), 0)}

\* mutant: an exchange already in the store keeps its first entry
StorePut_setdefault(bks, entry) ==
    IF \E i \in 1..Len(bks) : bks[i].ex = entry.ex THEN bks ELSE Append(bks, entry)

\* mutant: the lock is handed out whether or not it is held
CanAcquire_always == TRUE

\* asyncio.Lock: "async with self._lock" goes on only when the lock is not held
CanAcquire == lock = "free"

\* mutant: the store is replaced by one that holds the new entry only
StorePut_only(bks, entry) == <<entry>>

\* "self.books[exchange] = {...}": a new key goes last, a known key keeps its place
StorePut(bks, entry) ==
    IF \E i \in 1..Len(bks) : bks[i].ex = entry.ex
    THEN [i \in 1..Len(bks) |-> IF bks[i].ex = entry.ex THEN entry ELSE bks[i]]
    ELSE Append(bks, entry)

\* the dict consume_queue stores for a message
StoreEntry(msg) ==
    [ex |-> msg.exchange, best_bid |-> msg.best_bid, best_ask |-> msg.best_ask,
     timestamp |-> msg.timestamp]

\* "if not isinstance(msg, dict)" / "if not exchange": the message is ignored
IsIgnored(msg) == ~msg.isdict \/ msg.exchange = ""

\* the engine is started with the default threshold and fees over an empty store
InitStore ==
    /\ InitLogVars
    /\ InitSOBVars
    /\ InitMgrVars
    /\ InitStoreVars
    /\ InitSimVars
    /\ InitNetVars
    /\ books = <<>>
    /\ threshold = 1
    /\ fee_buy = 1
    /\ fee_sell = 1
    /\ enginePc = "start"
    /\ books_snapshot = <<>>
    /\ opportunities = <<>>
    /\ rowIdx = 0

\* mutant: the message is not marked done
TaskDone_forgotten(n) == n

\* "queue.task_done()": one unfinished item less
TaskDone(n) == n - 1

\* a producer's "await queue.put({...})" with its next timestamp: Queue.put
\* stores the item and counts it as unfinished
producer_put(p, q) ==
    /\ sent[p] < MaxSent
    /\ Len(queue) < MaxQueue
    /\ sent' = [sent EXCEPT ![p] = @ + 1]
    /\ queue' = Append(queue, Msg(TRUE, p, q[1], q[2], sent[p] + 1))
    /\ unfinished' = unfinished + 1
    /\ UNCHANGED <<lock, consPc, consMsg, monPc, lockBooks, lastDeq,
                   logVars, scanVars, sobVars, mgrVars, simVars, netVars>>

\* a put of something that is not a normalized update
stray_put(m) ==
    /\ Len(queue) < MaxQueue
    /\ queue' = Append(queue, m)
    /\ unfinished' = unfinished + 1
    /\ UNCHANGED <<sent, lock, consPc, consMsg, monPc, lockBooks, lastDeq,
                   logVars, scanVars, sobVars, mgrVars, simVars, netVars>>

\* consume_queue: "msg = await queue.get()" and the two tests that ignore it,
\* each followed by "queue.task_done(); continue"
consume_get ==
    /\ consPc = "get"
    /\ queue # <<>>
    /\ consMsg' = Head(queue)
    /\ queue' = Tail(queue)
    /\ IF IsIgnored(Head(queue))
          THEN /\ consPc' = "get"
               /\ unfinished' = TaskDone(unfinished)
               /\ UNCHANGED lastDeq
          ELSE /\ consPc' = "acquire"
               /\ UNCHANGED unfinished
               /\ lastDeq' = [lastDeq EXCEPT ![Head(queue).exchange] = Head(queue)]
    /\ UNCHANGED <<sent, lock, monPc, lockBooks,
                   logVars, scanVars, sobVars, mgrVars, simVars, netVars>>

\* consume_queue: "async with self._lock" entered
consume_acquire ==
    /\ consPc = "acquire"
    /\ CanAcquire
    /\ lock' = "consumer"
    /\ consPc' = "write"
    /\ UNCHANGED <<queue, sent, consMsg, monPc, lockBooks, lastDeq, unfinished,
                   logVars, scanVars, sobVars, mgrVars, simVars, netVars>>

\* consume_queue: the assignment to self.books[exchange], the lock released,
\* the print and task_done
consume_write ==
    /\ consPc = "write"
    /\ books' = StorePut(books, StoreEntry(consMsg))
    /\ lock' = "free"
    /\ consPc' = "get"
    /\ unfinished' = TaskDone(unfinished)
    /\ UNCHANGED <<queue, sent, consMsg, monPc, lockBooks, lastDeq,
                   threshold, fee_buy, fee_sell, enginePc, books_snapshot,
                   opportunities, rowIdx,
                   logVars, sobVars, mgrVars, simVars, netVars>>

\* "valid_bids = [(ex, d["best_bid"]) for ... if isinstance(d.get("best_bid"),
\* (int, float))]" and valid_asks, in the order of the store
HasNumericBid(d) == IsNumber(d.best_bid)
HasNumericAsk(d) == IsNumber(d.best_ask)
\* "max(valid_bids, key=lambda t: t[1])": the first entry with the highest bid
FirstMaxBid(vb) ==
    CHOOSE i \in 1..Len(vb) :
        /\ \A k \in 1..Len(vb) : Float(vb[k].best_bid) =< Float(vb[i].best_bid)
        /\ \A k \in 1..(i - 1) : Float(vb[k].best_bid) < Float(vb[i].best_bid)
\* "min(valid_asks, key=lambda t: t[1])": the first entry with the lowest ask
FirstMinAsk(va) ==
    CHOOSE j \in 1..Len(va) :
        /\ \A k \in 1..Len(va) : Float(va[j].best_ask) =< Float(va[k].best_ask)
        /\ \A k \in 1..(j - 1) : Float(va[j].best_ask) < Float(va[k].best_ask)
\* what one pass prints after the per-exchange summary: the "Best bid ... |
\* Best ask ..." line when there is a numeric bid and a numeric ask, and the
\* "Potential arbitrage: SELL on ... BUY on ..." line "if spread > 0"
MonitorReport(bks) ==
    LET vb == SelectSeq(bks, HasNumericBid)
        va == SelectSeq(bks, HasNumericAsk)
    IN  IF vb = <<>> \/ va = <<>> THEN NoReport
        ELSE LET s == vb[FirstMaxBid(vb)]
                 b == va[FirstMinAsk(va)]
             IN  [best |-> TRUE,
                  arbitrage |-> Float(s.best_bid) - Float(b.best_ask) > 0,
                  sell_ex |-> s.ex, buy_ex |-> b.ex,
                  best_bid |-> Float(s.best_bid), best_ask |-> Float(b.best_ask)]

\* monitor_loop: "await asyncio.sleep(interval)" returns
monitor_wake ==
    /\ monPc = "sleep"
    /\ monPc' = "acquire"
    /\ UNCHANGED <<queue, sent, lock, consPc, consMsg, lockBooks, lastDeq, unfinished,
                   logVars, scanVars, sobVars, mgrVars, simVars, netVars>>

\* monitor_loop: "async with self._lock" entered
monitor_acquire ==
    /\ monPc = "acquire"
    /\ CanAcquire
    /\ lock' = "monitor"
    /\ monPc' = "summary"
    /\ UNCHANGED <<queue, sent, consPc, consMsg, lockBooks, lastDeq, unfinished,
                   logVars, scanVars, sobVars, mgrVars, simVars, netVars>>

\* monitor_loop: the body of the with statement, left by "continue" when the
\* store is empty and at its end otherwise, where it has printed the lines of
\* MonitorReport(books); either way the lock is released
monitor_summary ==
    /\ monPc = "summary"
    /\ lock' = "free"
    /\ monPc' = "sleep"
    /\ UNCHANGED <<queue, sent, consPc, consMsg, lockBooks, lastDeq, unfinished,
                   logVars, scanVars, sobVars, mgrVars, simVars, netVars>>

\* arbitrage_engine: "await asyncio.sleep(interval)" returns
engine_wake ==
    /\ enginePc \in {"start", "sleep"}
    /\ enginePc' = "acquire"
    /\ UNCHANGED <<books, threshold, fee_buy, fee_sell, books_snapshot, opportunities,
                   rowIdx, storeVars, logVars, sobVars, mgrVars, simVars, netVars>>

\* arbitrage_engine: "async with obm._lock" entered
engine_acquire ==
    /\ enginePc = "acquire"
    /\ CanAcquire
    /\ lock' = "engine"
    /\ lockBooks' = books
    /\ enginePc' = "copy"
    /\ UNCHANGED <<books, threshold, fee_buy, fee_sell, books_snapshot, opportunities,
                   rowIdx, queue, sent, consPc, consMsg, monPc, lastDeq, unfinished,
                   logVars, sobVars, mgrVars, simVars, netVars>>

\* arbitrage_engine: "books_snapshot = {k: dict(v) for k, v in obm.books.items()}"
\* and the lock released
engine_copy ==
    /\ enginePc = "copy"
    /\ books_snapshot' = books
    /\ lock' = "free"
    /\ enginePc' = "scan"
    /\ UNCHANGED <<books, threshold, fee_buy, fee_sell, opportunities,
                   rowIdx, queue, sent, consPc, consMsg, monPc, lockBooks, lastDeq, unfinished,
                   logVars, sobVars, mgrVars, simVars, netVars>>

\* mutant: the scan reads the live store
ScanInput_live == books

\* what the scan of a tick evaluates: its own copy
ScanInput == books_snapshot

\* arbitrage_engine: from the copy to the first CSV append or the next sleep
engine_scan ==
    /\ enginePc = "scan"
    /\ opportunities' = ScanTick(ScanInput)
    /\ rowIdx' = IF opportunities' = <<>> THEN 0 ELSE 1
    /\ enginePc' = IF opportunities' = <<>> THEN "sleep" ELSE "append"
    /\ UNCHANGED <<books, threshold, fee_buy, fee_sell, books_snapshot,
                   storeVars, logVars, sobVars, mgrVars, simVars, netVars>>

NextStore ==
    \/ \E p \in StoreProducers : \E q \in ProducerQuotes(p) : producer_put(p, q)
    \/ \E m \in StrayMsgs : stray_put(m)
    \/ consume_get
    \/ consume_acquire
    \/ consume_write
    \/ monitor_wake
    \/ monitor_acquire
    \/ monitor_summary
    \/ engine_wake
    \/ engine_acquire
    \/ engine_copy
    \/ engine_scan
    \/ append_csv_row
    \/ append_csv_fail

SpecStore == InitStore /\ [][NextStore]_vars

\* monitor_loop over a store that the consumer has filled
InitMon ==
    /\ InitLogVars
    /\ InitSOBVars
    /\ InitMgrVars
    /\ InitStoreVars
    /\ InitSimVars
    /\ InitNetVars
    /\ books \in BookLists(ConfigExchanges)
    /\ threshold = 1
    /\ fee_buy = 1
    /\ fee_sell = 1
    /\ enginePc = "start"
    /\ books_snapshot = <<>>
    /\ opportunities = <<>>
    /\ rowIdx = 0

NextMon ==
    \/ monitor_wake
    \/ monitor_acquire
    \/ monitor_summary

SpecMon == InitMon /\ [][NextMon]_vars


(***************************************************************************)
(* binance_client.py / coinbase_client.py: handle_stream's reconnect loop, *)
(* the file writer, the heartbeat and main's shutdown; okx_client.py:      *)
(* run_okx                                                                 *)
(***************************************************************************)
\* Every task is cut at its awaits. Time is kept per client as one flag,
\* `recent`: less than SUBSCRIBE_RATE_LIMIT_SECONDS have passed since the
\* client's last subscribe. A sleep of at least that length ends with the
\* flag down; the flag is all that "since < SUBSCRIBE_RATE_LIMIT_SECONDS"
\* reads of the clock.

\* MAX_BACKOFF, in seconds
MAX_BACKOFF == 30
\* values of uniform(0, 1), in milliseconds
Jitters == {0, 500, 1000}

MinNum(a, b) == IF a =< b THEN a ELSE b

\* mutant: the delay is not capped
backoff_base_uncapped(n) == 2 ^ n

\* "delay = min(MAX_BACKOFF, 2 ** attempt)"
backoff_base(n) == MinNum(MAX_BACKOFF, 2 ^ n)

\* mutant: one attempt counter shared by all handlers
Bump_shared(att, st) == [s \in Streams |-> att[s] + 1]

\* "attempt += 1": attempt is a local of each handle_stream call
Bump(att, st) == [att EXCEPT ![st] = @ + 1]

\* mutant: the counter is kept across a successful connection
AttemptAfterSubscribe_keep(a) == a

\* "attempt = 0  # reset backoff attempts on success"
AttemptAfterSubscribe(a) == 0

\* "if since < SUBSCRIBE_RATE_LIMIT_SECONDS: await asyncio.sleep(...)"
MustWaitToSubscribe(st) == recent[st]

\* a (path, text) item of the log queue as handle_stream and heartbeat_logger
\* put it; the writer treats every item alike
LogLine == "line"

\* mutant: the handler returns when its connection is lost
LoopTop_return == "exited"

\* "while not stop_event.is_set():" evaluated at the top of the loop
LoopTop == IF stop_event THEN "exited" ELSE "connect"

\* what one received frame is, for handle_stream: text that is not JSON, a
\* subscription ack ("result"), an event without "E"/"T", an event with a
\* numeric event time, JSON that is a list, JSON that is a number or null,
\* an event whose event time is not numeric
MsgKinds == {"not_json", "ack", "no_time", "event", "json_list", "json_number", "bad_time"}

\* what handle_stream does with a frame: "skip" (continue), "log" (enqueue a
\* line) or "raise". `"result" in data` raises TypeError on a number or null,
\* data.get raises AttributeError on a list, int(event_time) raises
\* ValueError on a non-numeric string; none of them is inside the inner try.
StreamOutcome(k) ==
    CASE k \in {"not_json", "ack"} -> "skip"
      [] k \in {"no_time", "event"} -> "log"
      [] OTHER -> "raise"

\* the frames of run_okx: a frame that is not TEXT, text that is not JSON, a
\* list, a number or null, an object without a non-empty "data" list, a
\* "data" entry that is not an object, a level whose price is not numeric,
\* an update with an empty side, a books5 update
OkxKinds == {"not_text", "not_json", "json_list", "json_number", "no_data",
             "bad_entry", "bad_level", "empty_side", "book"}

\* what run_okx does with a frame: `"data" in data` raises TypeError on a
\* number, data_chunk.get raises AttributeError on an entry that is not an
\* object; float(item[0]) is inside a try of its own
OkxOutcome(k) ==
    CASE k \in {"json_number", "bad_entry"} -> "raise"
      [] k = "book" -> "put"
      [] OTHER -> "skip"

InitNet ==
    /\ InitLogVars
    /\ InitScanIdle
    /\ InitSOBVars
    /\ InitMgrVars
    /\ InitStoreVars
    /\ InitSimVars
    /\ InitNetVars

\* "except Exception as exc: attempt += 1; await exponential_backoff(attempt)"
\* up to the sleep, with jitter j
StreamFailure(st, j) ==
    /\ attempt[st] < MaxAttempt
    /\ attempt' = Bump(attempt, st)
    /\ delay' = [delay EXCEPT ![st] = [base |-> backoff_base(attempt[st] + 1), jitter |-> j]]
    /\ streamPc' = [streamPc EXCEPT ![st] = "backoff"]
    /\ failures' = [failures EXCEPT ![st] = @ + 1]
    /\ UNCHANGED <<prevBase, recent, shutVars, okxVars, logVars, restVars>>

\* websockets.connect raises
connect_fail(st, j) ==
    /\ streamPc[st] = "connect"
    /\ StreamFailure(st, j)

\* "async with websockets.connect(...) as ws": connected; the handler goes on
\* to the subscribe, after the rate-limit sleep when one is due
connect_ok(st) ==
    /\ streamPc[st] = "connect"
    /\ streamPc' = [streamPc EXCEPT ![st] =
                       IF MustWaitToSubscribe(st) THEN "ratelimit" ELSE "subscribe"]
    /\ UNCHANGED <<attempt, delay, failures, prevBase, recent,
                   shutVars, okxVars, logVars, restVars>>

\* "await asyncio.sleep(SUBSCRIBE_RATE_LIMIT_SECONDS - since)" returns
ratelimit_done(st) ==
    /\ streamPc[st] = "ratelimit"
    /\ ~recent[st]
    /\ streamPc' = [streamPc EXCEPT ![st] = "subscribe"]
    /\ UNCHANGED <<attempt, delay, failures, prevBase, recent,
                   shutVars, okxVars, logVars, restVars>>

\* "await ws.send(json.dumps(sub_msg)); last_subscribe_ts = time.time();
\* attempt = 0"
subscribe_ok(st) ==
    /\ streamPc[st] = "subscribe"
    /\ attempt' = [attempt EXCEPT ![st] = AttemptAfterSubscribe(@)]
    /\ recent' = [recent EXCEPT ![st] = TRUE]
    /\ streamPc' = [streamPc EXCEPT ![st] = "stream"]
    /\ failures' = [failures EXCEPT ![st] = 0]
    /\ UNCHANGED <<delay, prevBase, shutVars, okxVars, logVars, restVars>>

\* ws.send raises
subscribe_fail(st, j) ==
    /\ streamPc[st] = "subscribe"
    /\ StreamFailure(st, j)

\* SUBSCRIBE_RATE_LIMIT_SECONDS have passed since the last subscribe of st
second_elapsed(st) ==
    /\ recent[st]
    /\ recent' = [recent EXCEPT ![st] = FALSE]
    /\ UNCHANGED <<attempt, streamPc, delay, failures, prevBase,
                   shutVars, okxVars, logVars, restVars>>

\* one pass of "async for raw in ws" over a frame of kind k: the stop check,
\* json.loads, the ack test, the latency, "await enqueue_log(...)" (which
\* suspends the handler on a full queue), update_metrics
stream_message(st, k, j) ==
    /\ streamPc[st] = "stream"
    /\ IF stop_event
       THEN /\ streamPc' = [streamPc EXCEPT ![st] = "exited"]
            /\ UNCHANGED <<attempt, delay, failures, prevBase, recent,
                           shutVars, okxVars, logVars, restVars>>
       ELSE CASE StreamOutcome(k) = "skip" ->
                    UNCHANGED vars
              [] StreamOutcome(k) = "log" ->
                    /\ IF QueueFull(log_queue)
                       THEN /\ streamPc' = [streamPc EXCEPT ![st] = "put"]
                            /\ UNCHANGED log_queue
                       ELSE /\ log_queue' = Append(log_queue, LogLine)
                            /\ UNCHANGED streamPc
                    /\ UNCHANGED <<attempt, delay, failures, prevBase, recent,
                                   shutVars, okxVars, logHist, restVars>>
              [] OTHER -> StreamFailure(st, j)

\* log_queue.put resumes once the writer has freed a slot
stream_put_resume(st) ==
    /\ streamPc[st] = "put"
    /\ ~QueueFull(log_queue)
    /\ log_queue' = Append(log_queue, LogLine)
    /\ streamPc' = [streamPc EXCEPT ![st] = "stream"]
    /\ UNCHANGED <<attempt, delay, failures, prevBase, recent,
                   shutVars, okxVars, logHist, restVars>>

\* the connection breaks while the handler waits for the next frame
stream_error(st, j) ==
    /\ streamPc[st] = "stream"
    /\ StreamFailure(st, j)

\* the server closes cleanly: the async for ends and the while loop goes round
stream_closed(st) ==
    /\ streamPc[st] = "stream"
    /\ streamPc' = [streamPc EXCEPT ![st] = LoopTop]
    /\ UNCHANGED <<attempt, delay, failures, prevBase, recent,
                   shutVars, okxVars, logVars, restVars>>

\* "await asyncio.sleep(delay)" returns, at least 2 seconds after it began;
\* "continue"
backoff_done(st) ==
    /\ streamPc[st] = "backoff"
    /\ streamPc' = [streamPc EXCEPT ![st] = LoopTop]
    /\ prevBase' = [prevBase EXCEPT ![st] = delay[st].base]
    /\ delay' = [delay EXCEPT ![st] = [base |-> 0, jitter |-> 0]]
    /\ recent' = [recent EXCEPT ![st] = FALSE]
    /\ UNCHANGED <<attempt, failures, shutVars, okxVars, logVars, restVars>>

\* async_file_writer: one pass of its loop that got a line: write, flush,
\* task_done (which wakes a pending log_queue.join() when no line is left),
\* then "while not stop_event.is_set() or not log_queue.empty()"
writer_iteration ==
    /\ writerPc = "run"
    /\ log_queue # <<>>
    /\ log_queue' = Tail(log_queue)
    /\ writerPc' = IF stop_event /\ Tail(log_queue) = <<>> THEN "exited" ELSE "run"
    /\ mainPc' = IF mainPc = "join" /\ Tail(log_queue) = <<>> THEN "join_woken" ELSE mainPc
    /\ UNCHANGED <<stop_event, hbPc, streamVars, okxVars, logHist, restVars>>

\* async_file_writer: wait_for(log_queue.get(), timeout=0.5) times out after
\* the stop; "continue" and the loop condition ends the writer
writer_timeout ==
    /\ writerPc = "run"
    /\ log_queue = <<>>
    /\ stop_event
    /\ writerPc' = "exited"
    /\ UNCHANGED <<stop_event, mainPc, hbPc, streamVars, okxVars, logVars, restVars>>

\* heartbeat_logger: its sleep ends; "await enqueue_log(HEALTH_LOG, line)",
\* then "while not stop_event.is_set()"
heartbeat_wake ==
    /\ hbPc = "sleep"
    /\ IF QueueFull(log_queue)
       THEN /\ hbPc' = "put"
            /\ UNCHANGED log_queue
       ELSE /\ log_queue' = Append(log_queue, LogLine)
            /\ hbPc' = IF stop_event THEN "exited" ELSE "sleep"
    /\ UNCHANGED <<stop_event, mainPc, writerPc, streamVars, okxVars, logHist, restVars>>

\* heartbeat_logger: its log_queue.put resumes
heartbeat_put_resume ==
    /\ hbPc = "put"
    /\ ~QueueFull(log_queue)
    /\ log_queue' = Append(log_queue, LogLine)
    /\ hbPc' = IF stop_event THEN "exited" ELSE "sleep"
    /\ UNCHANGED <<stop_event, mainPc, writerPc, streamVars, okxVars, logHist, restVars>>

\* _signal_handler: "stop_event.set()"
signal_stop ==
    /\ ~stop_event
    /\ stop_event' = TRUE
    /\ UNCHANGED <<mainPc, writerPc, hbPc, streamVars, okxVars, logVars, restVars>>

\* a handler task that has not finished
Running(st) == streamPc[st] \notin {"exited", "cancelled"}

\* mutant: main cancels no handler
handler_tasks_none == {}

\* "handler_tasks = [asyncio.create_task(handle_stream(...)) for ... in streams]"
handler_tasks == Streams

\* main: "await stop_event.wait()" returns; "for t in handler_tasks:
\* t.cancel()". The next step of a cancelled task is the CancelledError
\* thrown at the await it is suspended in.
main_cancel ==
    /\ mainPc = "wait_stop"
    /\ stop_event
    /\ mainPc' = "gather"
    /\ streamPc' = [st \in Streams |->
                       IF st \in handler_tasks /\ Running(st) THEN "cancelling" ELSE streamPc[st]]
    /\ UNCHANGED <<attempt, delay, failures, prevBase, recent,
                   stop_event, writerPc, hbPc, okxVars, logVars, restVars>>

\* handle_stream: CancelledError leaves "async with websockets.connect(...)",
\* which closes the connection, and "except asyncio.CancelledError: raise"
\* ends the task
handler_cancelled(st) ==
    /\ streamPc[st] = "cancelling"
    /\ streamPc' = [streamPc EXCEPT ![st] = "cancelled"]
    /\ UNCHANGED <<attempt, delay, failures, prevBase, recent,
                   shutVars, okxVars, logVars, restVars>>

\* "writer_task.cancel(); heartbeat_task.cancel()"
CancelTask(pc) == IF pc \in {"exited", "cancelled"} THEN pc ELSE "cancelled"

\* main: gather(*handler_tasks) returns; "await log_queue.join()" returns at
\* once when no line is unfinished, and then the writer and the heartbeat
\* are cancelled
main_gathered ==
    /\ mainPc = "gather"
    /\ \A st \in Streams : ~Running(st)
    /\ IF log_queue = <<>>
       THEN /\ mainPc' = "gather_rest"
            /\ writerPc' = CancelTask(writerPc)
            /\ hbPc' = CancelTask(hbPc)
       ELSE /\ mainPc' = "join"
            /\ UNCHANGED <<writerPc, hbPc>>
    /\ UNCHANGED <<stop_event, streamVars, okxVars, logVars, restVars>>

\* main: resumes from log_queue.join() (Queue.join does not look at the
\* queue again); "writer_task.cancel(); heartbeat_task.cancel()"
main_joined ==
    /\ mainPc = "join_woken"
    /\ mainPc' = "gather_rest"
    /\ writerPc' = CancelTask(writerPc)
    /\ hbPc' = CancelTask(hbPc)
    /\ UNCHANGED <<stop_event, streamVars, okxVars, logVars, restVars>>

\* main: gather(writer_task, heartbeat_task) returns; "Shutdown complete."
main_complete ==
    /\ mainPc = "gather_rest"
    /\ mainPc' = "complete"
    /\ UNCHANGED <<stop_event, writerPc, hbPc, streamVars, okxVars, logVars, restVars>>

\* run_okx: "except Exception as e: await asyncio.sleep(backoff)", up to the sleep
OkxFailure ==
    /\ okxPc' = "sleep"
    /\ okxSleep' = backoff
    /\ okxFailures' = MinNum(okxFailures + 1, MaxAttempt)
    /\ UNCHANGED <<backoff, okxRecent, streamVars, shutVars, logVars, restVars>>

\* ws_connect raises
okx_connect_fail ==
    /\ okxPc = "connect"
    /\ OkxFailure

\* "async with session.ws_connect(OKX_WS_URL, heartbeat=20) as ws"
okx_connect_ok ==
    /\ okxPc = "connect"
    /\ okxPc' = "subscribe"
    /\ UNCHANGED <<backoff, okxSleep, okxFailures, okxRecent,
                   streamVars, shutVars, logVars, restVars>>

\* "await ws.send_json(sub); backoff = 1"
okx_subscribe_ok ==
    /\ okxPc = "subscribe"
    /\ okxPc' = "stream"
    /\ backoff' = 1
    /\ okxFailures' = 0
    /\ okxRecent' = TRUE
    /\ UNCHANGED <<okxSleep, streamVars, shutVars, logVars, restVars>>

\* send_json raises
okx_subscribe_fail ==
    /\ okxPc = "subscribe"
    /\ OkxFailure

\* one pass of "async for msg in ws" over a frame that is dropped or that raises
okx_message(k) ==
    /\ okxPc = "stream"
    /\ OkxOutcome(k) # "put"
    /\ IF OkxOutcome(k) = "raise"
       THEN OkxFailure
       ELSE UNCHANGED vars

\* one pass over a books5 update with best prices q: "await queue.put({...})"
okx_book(q) ==
    /\ okxPc = "stream"
    /\ producer_put("okx", q)

\* the connection breaks while run_okx waits for the next frame
okx_stream_error ==
    /\ okxPc = "stream"
    /\ OkxFailure

\* the server closes cleanly: the async for ends and "while True" goes round
okx_closed ==
    /\ okxPc = "stream"
    /\ okxPc' = "connect"
    /\ UNCHANGED <<backoff, okxSleep, okxFailures, okxRecent,
                   streamVars, shutVars, logVars, restVars>>

\* "await asyncio.sleep(backoff)" returns, at least a second after it began;
\* "backoff = min(backoff * 2, 30)"
okx_sleep_done ==
    /\ okxPc = "sleep"
    /\ okxPc' = "connect"
    /\ backoff' = MinNum(backoff * 2, 30)
    /\ okxSleep' = 0
    /\ okxRecent' = FALSE
    /\ UNCHANGED <<okxFailures, streamVars, shutVars, logVars, restVars>>

\* SUBSCRIBE_RATE_LIMIT_SECONDS have passed since the last subscribe of run_okx
okx_second_elapsed ==
    /\ okxRecent
    /\ okxRecent' = FALSE
    /\ UNCHANGED <<okxPc, backoff, okxSleep, okxFailures,
                   streamVars, shutVars, logVars, restVars>>

\* the steps of the handle_stream tasks of S, with jitters J and at most
\* maxAtt consecutive failures
HandlerNext(S, J, maxAtt) ==
    \/ \E st \in S, j \in J : attempt[st] < maxAtt /\ connect_fail(st, j)
    \/ \E st \in S : connect_ok(st)
    \/ \E st \in S : ratelimit_done(st)
    \/ \E st \in S : subscribe_ok(st)
    \/ \E st \in S, j \in J : attempt[st] < maxAtt /\ subscribe_fail(st, j)
    \/ \E st \in S : second_elapsed(st)
    \/ \E st \in S, k \in MsgKinds, j \in J :
          (StreamOutcome(k) = "raise" => attempt[st] < maxAtt) /\ stream_message(st, k, j)
    \/ \E st \in S : stream_put_resume(st)
    \/ \E st \in S, j \in J : attempt[st] < maxAtt /\ stream_error(st, j)
    \/ \E st \in S : stream_closed(st)
    \/ \E st \in S : backoff_done(st)

\* two handlers of one client and the writer: the reconnect loop in depth
NetStreams == {"trades", "ticker"}
NextNet ==
    \/ HandlerNext(NetStreams, Jitters, MaxAttempt)
    \/ writer_iteration

SpecNet == InitNet /\ [][NextNet]_vars

\* the three handlers main() starts and the writer: the handlers side by side
IsoJitters == {0}
NextIso ==
    \/ HandlerNext(Streams, IsoJitters, MaxIsoAttempt)
    \/ writer_iteration

SpecIso == InitNet /\ [][NextIso]_vars

\* one handler of binance_client, its writer, and run_okx
ClientStreams == {"trades"}
NextClient ==
    \/ HandlerNext(ClientStreams, Jitters, MaxAttempt)
    \/ writer_iteration
    \/ okx_connect_fail
    \/ okx_connect_ok
    \/ okx_subscribe_ok
    \/ okx_subscribe_fail
    \/ \E k \in OkxKinds : okx_message(k)
    \/ \E q \in StoreQuotes : okx_book(q)
    \/ okx_stream_error
    \/ okx_closed
    \/ okx_sleep_done
    \/ okx_second_elapsed

SpecClient == InitNet /\ [][NextClient]_vars

\* The levels of a books5 frame as OKX sends them, ["price", "size", ...]: a
\* field is Num(x) when float() parses it and StrVal when float() raises. The
\* venue lists the levels of a side in any order.
OkxBidPrices == {100, 101}
OkxAskPrices == {102, 103}
OkxRawLevels(prices) == {<<Num(p), Num(1)>> : p \in prices} \cup {<<StrVal, Num(1)>>}
OkxRawSides(prices) == UNION { [1..k -> OkxRawLevels(prices)] : k \in 0..MaxOkxLevels }

\* "for item in bids_raw: price = float(item[0]); size = float(item[1]);
\* bids.append([price, size])": the parsed side, or the exception
OkxParses(raw) == \A i \in 1..Len(raw) : IsNumber(raw[i][1]) /\ IsNumber(raw[i][2])
OkxParsed(raw) == [i \in 1..Len(raw) |-> <<Float(raw[i][1]), Float(raw[i][2])>>]

\* the body of the loop from bids_raw to the dict that is put: "except
\* Exception: continue" for a level that does not parse, "if not bids or not
\* asks: continue", then "best_bid = bids[0][0]" and "best_ask = asks[0][0]"
OkxNormalize(bids_raw, asks_raw) ==
    IF ~(OkxParses(bids_raw) /\ OkxParses(asks_raw)) \/ bids_raw = <<>> \/ asks_raw = <<>>
    THEN [put |-> FALSE, bids |-> <<>>, asks |-> <<>>, best_bid |-> 0, best_ask |-> 0]
    ELSE [put |-> TRUE, bids |-> OkxParsed(bids_raw), asks |-> OkxParsed(asks_raw),
          best_bid |-> OkxParsed(bids_raw)[1][1], best_ask |-> OkxParsed(asks_raw)[1][1]]

\* one pass of "async for msg in ws" over a books5 frame with these levels
okx_update(bids_raw, asks_raw) ==
    LET u == OkxNormalize(bids_raw, asks_raw)
    IN  /\ okxPc = "stream"
        /\ IF u.put
           THEN producer_put("okx", <<Num(u.best_bid), Num(u.best_ask)>>)
           ELSE UNCHANGED vars

\* run_okx over frames with their levels, and the consumer of its queue
NextOkx ==
    \/ okx_connect_ok
    \/ okx_subscribe_ok
    \/ okx_closed
    \/ \E bids_raw \in OkxRawSides(OkxBidPrices), asks_raw \in OkxRawSides(OkxAskPrices) :
          okx_update(bids_raw, asks_raw)
    \/ consume_get
    \/ consume_acquire
    \/ consume_write

SpecOkx == InitStore /\ [][NextOkx]_vars

\* asyncio.sleep returns when its time is up
SpecClientFair ==
    /\ SpecClient
    /\ \A st \in ClientStreams : WF_vars(backoff_done(st))
    /\ WF_vars(okx_sleep_done)

\* binance_client.main with its handlers, writer and heartbeat, up to
\* "Shutdown complete."
ShutStreams == {"trades", "ticker"}
NextShut ==
    \/ HandlerNext(ShutStreams, IsoJitters, MaxIsoAttempt)
    \/ writer_iteration
    \/ writer_timeout
    \/ heartbeat_wake
    \/ heartbeat_put_resume
    \/ signal_stop
    \/ main_cancel
    \/ \E st \in Streams : handler_cancelled(st)
    \/ main_gathered
    \/ main_joined
    \/ main_complete

SpecShut == InitNet /\ [][NextShut]_vars

\* the event loop runs every task that is ready: main once stop_event is set
\* or its gather is done, a cancelled handler
SpecShutFair ==
    /\ SpecShut
    /\ WF_vars(main_cancel)
    /\ \A st \in Streams : WF_vars(handler_cancelled(st))

\* the event loop runs every task that is ready: each step of main, the file
\* writer's next line or timeout, the end of the heartbeat's sleep or of its
\* put, a cancelled handler. Nothing is assumed about the network.
SpecShutTasksFair ==
    /\ SpecShut
    /\ WF_vars(main_cancel)
    /\ WF_vars(main_gathered)
    /\ WF_vars(main_joined)
    /\ WF_vars(main_complete)
    /\ WF_vars(writer_iteration)
    /\ WF_vars(writer_timeout)
    /\ WF_vars(heartbeat_wake)
    /\ WF_vars(heartbeat_put_resume)
    /\ \A st \in Streams : WF_vars(handler_cancelled(st))

(***************************************************************************)
(* execution/simulator.py: TradeSimulator.handle_signal                    *)
(***************************************************************************)
\* SPREAD_THRESHOLD (0.05 percent) in hundredths of a percent, TRADE_SIZE_USD
\* and SLIPPAGE_BPS, at their defaults
SPREAD_THRESHOLD == 5
TRADE_SIZE_USD == 100
SLIPPAGE_BPS == 2
\* cumulative_pnl and pnl are held in units of 1/PnlUnit dollars
PnlUnit == 100

\* the (buy_price, sell_price) of the signals put on sim_queue
\* <<buy_price, sell_price, complete>>: complete says that the dict has the
\* four keys handle_signal reads
Signals ==
    {<<100, 101, TRUE>>, <<100, 100, TRUE>>, <<101, 100, TRUE>>,
     <<0, 100, TRUE>>, <<100, 101, FALSE>>}

\* mutant: no signal is held back by the cooldown
InCooldown_never(current_time, last) == FALSE

\* "current_time - self.last_trade_time < COOLDOWN_SECONDS"
InCooldown(current_time, last) == current_time - last < COOLDOWN_SECONDS

\* "spread_pct = ((sell_price - buy_price) / buy_price) * 100" and
\* "spread_pct < SPREAD_THRESHOLD", for buy_price > 0
BelowSpreadThreshold(buy_price, sell_price) ==
    (sell_price - buy_price) * 100 * 100 < SPREAD_THRESHOLD * buy_price

\* "pnl = (effective_sell - effective_buy) * (TRADE_SIZE_USD / effective_buy)"
\* with effective_buy = buy_price * (1 + SLIPPAGE_BPS / 10000) and
\* effective_sell = sell_price * (1 - SLIPPAGE_BPS / 10000), rounded down
Pnl(buy_price, sell_price) ==
    LET effective_buy == buy_price * (10000 + SLIPPAGE_BPS)
        effective_sell == sell_price * (10000 - SLIPPAGE_BPS)
    IN  ((effective_sell - effective_buy) * TRADE_SIZE_USD * PnlUnit) \div effective_buy

\* the times of the last two CSV rows after a row written at time t
RowsAfter(rows, t) == IF Len(rows) = 2 THEN <<rows[2], t>> ELSE Append(rows, t)
\* the time of the last CSV row, 0 when there is none
LastRow(rows) == IF rows = <<>> THEN 0 ELSE rows[Len(rows)]

InitSim ==
    /\ InitLogVars
    /\ InitScanIdle
    /\ InitSOBVars
    /\ InitMgrVars
    /\ InitStoreVars
    /\ InitSimVars
    /\ InitNetVars

\* a second passes
sim_tick ==
    /\ simNow < MaxTime
    /\ simNow' = simNow + 1
    /\ UNCHANGED <<last_trade_time, trade_id, cumulative_pnl, simRows, simLast, simPc,
                   logVars, scanVars, sobVars, mgrVars, storeVars, netVars>>

\* "buy_ex = trade["buy_exchange"] ... sell_price = trade["sell_price"]" raises
\* KeyError on a missing key, and "(sell_price - buy_price) / buy_price"
\* raises ZeroDivisionError for buy_price = 0
SignalRaises(buy_price, complete) == ~complete \/ buy_price = 0

\* one iteration of handle_signal's loop for the signal taken off sim_queue;
\* the loop has no try, so an exception of the body ends the task
handle_signal(buy_price, sell_price, complete) ==
    LET before == [time |-> simNow, outcome |-> "none",
                   rowBefore |-> LastRow(simRows), pnlBefore |-> cumulative_pnl]
    IN  /\ simPc = "run"
        /\ IF InCooldown(simNow, last_trade_time)
              THEN /\ simLast' = [before EXCEPT !.outcome = "cooldown"]
                   /\ UNCHANGED <<last_trade_time, trade_id, cumulative_pnl, simRows, simPc>>
              ELSE /\ last_trade_time' = simNow
                   /\ trade_id' = trade_id + 1
                   /\ IF SignalRaises(buy_price, complete)
                         THEN /\ simLast' = [before EXCEPT !.outcome = "raised"]
                              /\ simPc' = "raised"
                              /\ UNCHANGED <<cumulative_pnl, simRows>>
                         ELSE IF BelowSpreadThreshold(buy_price, sell_price)
                         THEN /\ simLast' = [before EXCEPT !.outcome = "below_threshold"]
                              /\ UNCHANGED <<cumulative_pnl, simRows, simPc>>
                         ELSE /\ cumulative_pnl' = cumulative_pnl + Pnl(buy_price, sell_price)
                              /\ simRows' = RowsAfter(simRows, simNow)
                              /\ simLast' = [before EXCEPT !.outcome = "recorded"]
                              /\ UNCHANGED simPc
        /\ UNCHANGED <<simNow, logVars, scanVars, sobVars, mgrVars, storeVars, netVars>>

NextSim ==
    \/ sim_tick
    \/ \E sig \in Signals : handle_signal(sig[1], sig[2], sig[3])

SpecSim == InitSim /\ [][NextSim]_vars

(***************************************************************************)
(* core/orderbook_manager.py: class SimpleOrderBook                        *)
(***************************************************************************)
\* prices and sizes the callers pass (floats parsed from the venue's strings)
BookPrices == {100, 101}
Sizes == {-1, 0, 1, 2}
Sides == {"buy", "sell"}

\* dict.pop(price, None)
Pop(m, price) == [k \in DOMAIN m \ {price} |-> m[k]]
\* dict[price] = size
Put(m, price, size) == [k \in DOMAIN m \cup {price} |-> IF k = price THEN size ELSE m[k]]

\* "size == 0 or math.isclose(size, 0.0)": isclose has abs_tol 0, so it holds
\* of no size other than 0
IsDelete(size) == size = 0

\* mutant: a size of 0 is stored like any other size
apply_update_store(book, side, price, size) ==
    IF side = "buy" THEN [book EXCEPT !.bids = Put(book.bids, price, size)]
    ELSE [book EXCEPT !.asks = Put(book.asks, price, size)]

\* SimpleOrderBook.apply_update
apply_update(book, side, price, size) ==
    IF IsDelete(size)
    THEN IF side = "buy" THEN [book EXCEPT !.bids = Pop(book.bids, price)]
         ELSE [book EXCEPT !.asks = Pop(book.asks, price)]
    ELSE IF side = "buy" THEN [book EXCEPT !.bids = Put(book.bids, price, size)]
         ELSE [book EXCEPT !.asks = Put(book.asks, price, size)]

\* Level(p, q)
Level(price, size) == [price |-> price, size |-> size]

MaxOf(S) == CHOOSE x \in S : \A y \in S : y =< x
MinOf(S) == CHOOSE x \in S : \A y \in S : x =< y

\* sorted(self.bids.items(), key=lambda x: -x[0])
RECURSIVE SortedDesc(_)
SortedDesc(m) ==
    IF DOMAIN m = {} THEN <<>>
    ELSE LET p == MaxOf(DOMAIN m) IN <<Level(p, m[p])>> \o SortedDesc(Pop(m, p))

\* sorted(self.asks.items(), key=lambda x: x[0])
RECURSIVE SortedAsc(_)
SortedAsc(m) ==
    IF DOMAIN m = {} THEN <<>>
    ELSE LET p == MinOf(DOMAIN m) IN <<Level(p, m[p])>> \o SortedAsc(Pop(m, p))

\* the slice s[:n]
Slice(s, n) ==
    IF n >= 0 THEN SubSeq(s, 1, IF n < Len(s) THEN n ELSE Len(s))
    ELSE SubSeq(s, 1, Len(s) + n)

\* SimpleOrderBook.top_n
top_n(book, n) ==
    [n |-> n, bids |-> Slice(SortedDesc(book.bids), n), asks |-> Slice(SortedAsc(book.asks), n)]

\* a Level as best_bid / best_ask return it
SomeLevel(price, size) == [none |-> FALSE, price |-> price, size |-> size]

\* mutant: the bid with the lowest price
best_bid_min(book) ==
    IF DOMAIN book.bids = {} THEN NoLevel
    ELSE LET p == MinOf(DOMAIN book.bids) IN SomeLevel(p, book.bids[p])

\* SimpleOrderBook.best_bid
best_bid(book) ==
    IF DOMAIN book.bids = {} THEN NoLevel
    ELSE LET p == MaxOf(DOMAIN book.bids) IN SomeLevel(p, book.bids[p])

\* SimpleOrderBook.best_ask
best_ask(book) ==
    IF DOMAIN book.asks = {} THEN NoLevel
    ELSE LET p == MinOf(DOMAIN book.asks) IN SomeLevel(p, book.asks[p])

InitSOB ==
    /\ InitLogVars
    /\ InitScanIdle
    /\ InitSOBVars
    /\ InitMgrVars
    /\ InitStoreVars
    /\ InitSimVars
    /\ InitNetVars

\* a call of apply_update(side, price, size)
ApplyUpdate(side, price, size) ==
    /\ sob' = apply_update(sob, side, price, size)
    /\ sobHist' = IF Len(sobHist) = 2
                     THEN <<sobHist[2], [side |-> side, price |-> price, size |-> size]>>
                     ELSE Append(sobHist, [side |-> side, price |-> price, size |-> size])
    /\ sobBase' = IF Len(sobHist) = 2
                     THEN apply_update(sobBase, sobHist[1].side, sobHist[1].price, sobHist[1].size)
                     ELSE sobBase
    /\ sobRet' = NoRet
    /\ sobBest' = NoBest
    /\ UNCHANGED <<logVars, scanVars, mgrVars,
                   storeVars, simVars, netVars>>

\* a call of top_n(n)
TopN(n) ==
    /\ sobRet' = top_n(sob, n)
    /\ sobHist' = <<>>
    /\ sobBase' = sob
    /\ sobBest' = NoBest
    /\ UNCHANGED <<sob, logVars, scanVars, mgrVars,
                   storeVars, simVars, netVars>>

\* a call of best_bid()
BestBid ==
    /\ sobBest' = [op |-> "best_bid", ret |-> best_bid(sob)]
    /\ sobRet' = NoRet
    /\ sobHist' = <<>>
    /\ sobBase' = sob
    /\ UNCHANGED <<sob, logVars, scanVars, mgrVars,
                   storeVars, simVars, netVars>>

\* a call of best_ask()
BestAsk ==
    /\ sobBest' = [op |-> "best_ask", ret |-> best_ask(sob)]
    /\ sobRet' = NoRet
    /\ sobHist' = <<>>
    /\ sobBase' = sob
    /\ UNCHANGED <<sob, logVars, scanVars, mgrVars,
                   storeVars, simVars, netVars>>

NextSOB ==
    \/ \E side \in Sides, price \in BookPrices, size \in Sizes : ApplyUpdate(side, price, size)
    \/ \E n \in 0..MaxN : TopN(n)
    \/ BestBid
    \/ BestAsk

SpecSOB == InitSOB /\ [][NextSOB]_vars

(***************************************************************************)
(* core/orderbook_manager.py: class OrderbookManager                       *)
(***************************************************************************)
\* A level of a message is the list of its fields as the venue sent them; a
\* field is Num(x) when float() parses it and StrVal when float() raises.
\* The asks of the messages are kept to one price and one positive size.
BidPrices == {100, 101}
BidSizes == {0, 1, 2}
AskPrices == {102}
AskSizes == {0, 1}
\* a level whose size is not a number, and a level missing its size
BadSizeLevel == <<Num(100), StrVal>>
ShortLevel == <<Num(100)>>
BidLevels ==
    {<<Num(p), Num(q)>> : p \in BidPrices, q \in BidSizes} \cup {BadSizeLevel, ShortLevel}
AskLevels ==
    {<<Num(p), Num(q)>> : p \in AskPrices, q \in AskSizes} \cup {BadSizeLevel, ShortLevel}
\* the entries of a Coinbase l2update: [side, price, size]
Changes ==
    {<<"buy", Num(p), Num(q)>> : p \in BidPrices, q \in BidSizes}
    \cup {<<"sell", Num(p), Num(q)>> : p \in AskPrices, q \in AskSizes}
    \cup {<<"buy", Num(100), StrVal>>, <<"buy", Num(100)>>}

\* the lists of exactly k elements of S
ListsOfLen(S, k) == [1..k -> S]
\* {'b': [...], 'a': [...]} and {'type': 'snapshot', 'bids': [...], 'asks': [...]}
\* with at most MaxLevels levels in all
TwoSided ==
    UNION { UNION { {[bids |-> bl, asks |-> al] :
                        bl \in ListsOfLen(BidLevels, i), al \in ListsOfLen(AskLevels, j)} :
                    j \in 0..(MaxLevels - i) } : i \in 0..MaxLevels }
\* {'type': 'l2update', 'changes': [...]}
ChangeLists == UNION { ListsOfLen(Changes, k) : k \in 0..MaxLevels }

\* "for p_str, q_str in levels: try: p = float(p_str); q = float(q_str);
\*  ob.apply_update(side, p, q) except Exception: continue", from position i on.
\* The unpacking in the for statement is outside the try: a level that does not
\* have exactly two fields raises ValueError out of process_message.
RECURSIVE ApplyLevels(_, _, _, _)
ApplyLevels(book, side, levels, i) ==
    IF i > Len(levels) THEN [book |-> book, raised |-> FALSE]
    ELSE IF Len(levels[i]) # 2 THEN [book |-> book, raised |-> TRUE]
    ELSE IF ~(IsNumber(levels[i][1]) /\ IsNumber(levels[i][2]))
         THEN ApplyLevels(book, side, levels, i + 1)
    ELSE ApplyLevels(apply_update(book, side, Float(levels[i][1]), Float(levels[i][2])),
                     side, levels, i + 1)

\* the bids loop followed by the asks loop
ApplyBothSides(book, data) ==
    LET r == ApplyLevels(book, "buy", data.bids, 1)
    IN  IF r.raised THEN r ELSE ApplyLevels(r.book, "sell", data.asks, 1)

\* "for change in changes: try: side, p_str, q_str = change ... except Exception:
\*  continue": here the unpacking is inside the try
RECURSIVE ApplyChanges(_, _, _)
ApplyChanges(book, changes, i) ==
    IF i > Len(changes) THEN [book |-> book, raised |-> FALSE]
    ELSE IF Len(changes[i]) # 3 THEN ApplyChanges(book, changes, i + 1)
    ELSE IF ~(IsNumber(changes[i][2]) /\ IsNumber(changes[i][3]))
         THEN ApplyChanges(book, changes, i + 1)
    ELSE ApplyChanges(
            apply_update(book, IF changes[i][1] \in {"buy", "b"} THEN "buy" ELSE "sell",
                         Float(changes[i][2]), Float(changes[i][3])),
            changes, i + 1)

\* "ob.bids.clear(); ob.asks.clear()"
Cleared(book) == EmptyBook

\* DEFAULT_TOP_N
DEFAULT_TOP_N == 10

\* "n = n or self.top_n": None and 0 are both falsy
EffectiveN(n) == IF IsNumber(n) /\ Float(n) # 0 THEN Float(n) ELSE DEFAULT_TOP_N

\* OrderbookManager.get_snapshot for a known exchange
get_snapshot(book, n) ==
    LET t == top_n(book, EffectiveN(n))
    IN  [n |-> n, bids |-> t.bids, asks |-> t.asks]

\* The book a message prescribes when each of its well-formed levels is taken
\* by itself, in order: size > 0 upserts the price, size 0 removes it, and a
\* malformed level changes nothing. Entries are [side, price, size] lists.
RECURSIVE LevelwiseBook(_, _, _)
LevelwiseBook(book, entries, i) ==
    IF i > Len(entries) THEN book
    ELSE LET e == entries[i]
             ok == Len(e) = 3 /\ e[2][1] = "num" /\ e[3][1] = "num"
             m == IF e[1] = "buy" THEN book.bids ELSE book.asks
             m2 == IF ~ok THEN m
                   ELSE IF e[3][2] > 0 THEN Put(m, e[2][2], e[3][2])
                   ELSE IF e[3][2] = 0 THEN Pop(m, e[2][2])
                   ELSE m
         IN  LevelwiseBook(IF e[1] = "buy" THEN [book EXCEPT !.bids = m2]
                           ELSE [book EXCEPT !.asks = m2], entries, i + 1)
\* the levels of a two-sided message as [side, price, size] entries, bids first
Tagged(side, levels) == [k \in 1..Len(levels) |-> <<side>> \o levels[k]]
EntriesOf(data) == Tagged("buy", data.bids) \o Tagged("sell", data.asks)

\* the functions a caller can install as OrderbookManager.enqueue_log: none (the
\* constructor's default), a plain function that logs the line, a plain function
\* that raises, and a coroutine function such as multi_runner.enqueue_log
EnqueueLogKinds == {"none", "sync", "sync_raises", "async"}
\* The tail of _compute_and_log_spread: the number of records that reach the
\* log. Without a function the line is written to the file. A plain function
\* is called and logs it; when it raises, "except Exception" writes the line
\* to the file. Calling a coroutine function raises nothing and returns a
\* coroutine object that is neither awaited nor scheduled, so "except
\* TypeError" is not entered and nothing is logged.
RecordsLogged(fn) == IF fn = "async" THEN 0 ELSE 1

\* "ex = exchange.lower()" over the spellings a caller passes
ExchangeNames == {"binance", "Binance", "coinbase", "okx", "kraken"}
Lower(exchange) == IF exchange = "Binance" THEN "binance" ELSE exchange
\* "ob = self.orderbooks[ex]": the book the updates are applied to
ObKey_first(ex) == "binance"
ObKey(ex) == ex

InitBook ==
    /\ InitLogVars
    /\ InitScanIdle
    /\ InitSOBVars
    /\ InitMgrVars
    /\ InitStoreVars
    /\ InitSimVars
    /\ InitNetVars

\* process_message("binance", {'b': data.bids, 'a': data.asks})
ProcessBinance(data) ==
    LET r == ApplyBothSides(orderbooks["binance"], data)
    IN  /\ orderbooks' = [orderbooks EXCEPT ![ObKey("binance")] = r.book]
        /\ mgrCall' = [op |-> "process_message", ex |-> "binance",
                       kind |-> "incremental", raised |-> r.raised,
                       spread |-> ~r.raised,
                       logged |-> IF r.raised THEN 0 ELSE RecordsLogged(mgr_enqueue_log)]
        /\ mgrLevelwise' = LevelwiseBook(orderbooks["binance"], EntriesOf(data), 1)
        /\ mgrRet' = NoSnapshot
        /\ UNCHANGED <<mgr_enqueue_log, logVars, scanVars, sobVars,
                       storeVars, simVars, netVars>>

\* process_message("coinbase", {'type': 'snapshot', 'bids': ..., 'asks': ...})
ProcessCoinbaseSnapshot(data) ==
    LET r == ApplyBothSides(Cleared(orderbooks["coinbase"]), data)
    IN  /\ orderbooks' = [orderbooks EXCEPT ![ObKey("coinbase")] = r.book]
        /\ mgrCall' = [op |-> "process_message", ex |-> "coinbase",
                       kind |-> "snapshot", raised |-> r.raised,
                       spread |-> ~r.raised,
                       logged |-> IF r.raised THEN 0 ELSE RecordsLogged(mgr_enqueue_log)]
        /\ mgrLevelwise' = LevelwiseBook(EmptyBook, EntriesOf(data), 1)
        /\ mgrRet' = NoSnapshot
        /\ UNCHANGED <<mgr_enqueue_log, logVars, scanVars, sobVars,
                       storeVars, simVars, netVars>>

\* process_message("coinbase", {'type': 'l2update', 'changes': changes})
ProcessCoinbaseChanges(changes) ==
    LET r == ApplyChanges(orderbooks["coinbase"], changes, 1)
    IN  /\ orderbooks' = [orderbooks EXCEPT ![ObKey("coinbase")] = r.book]
        /\ mgrCall' = [op |-> "process_message", ex |-> "coinbase",
                       kind |-> "incremental", raised |-> r.raised,
                       spread |-> ~r.raised,
                       logged |-> IF r.raised THEN 0 ELSE RecordsLogged(mgr_enqueue_log)]
        /\ mgrLevelwise' = LevelwiseBook(orderbooks["coinbase"], changes, 1)
        /\ mgrRet' = NoSnapshot
        /\ UNCHANGED <<mgr_enqueue_log, logVars, scanVars, sobVars,
                       storeVars, simVars, netVars>>

\* set_enqueue_log(fn)
set_enqueue_log(fn) ==
    /\ mgr_enqueue_log' = fn
    /\ UNCHANGED <<orderbooks, mgrCall, mgrLevelwise, mgrRet,
                   logVars, scanVars, sobVars, storeVars, simVars, netVars>>

\* process_message(exchange, data) for an exchange that is not a key of
\* orderbooks: "if ex not in self.orderbooks: return"
ProcessIgnored(exchange) ==
    /\ Lower(exchange) \notin DOMAIN orderbooks
    /\ mgrCall' = [op |-> "process_message", ex |-> Lower(exchange),
                   kind |-> "ignored", raised |-> FALSE, spread |-> FALSE,
                   logged |-> 0]
    /\ mgrLevelwise' = EmptyBook
    /\ mgrRet' = NoSnapshot
    /\ UNCHANGED <<orderbooks, mgr_enqueue_log, logVars, scanVars, sobVars,
                   storeVars, simVars, netVars>>

NextBook ==
    \/ \E data \in TwoSided : ProcessBinance(data)
    \/ \E data \in TwoSided : ProcessCoinbaseSnapshot(data)
    \/ \E changes \in ChangeLists : ProcessCoinbaseChanges(changes)

SpecBook == InitBook /\ [][NextBook]_vars

\* The manager with messages of at most one level, every kind of enqueue_log
\* and the exchanges it does not know
OneLevel ==
    {[bids |-> <<>>, asks |-> <<>>]}
    \cup {[bids |-> <<l>>, asks |-> <<>>] : l \in BidLevels}
    \cup {[bids |-> <<>>, asks |-> <<l>>] : l \in AskLevels}
OneChange == {<<>>} \cup {<<c>> : c \in Changes}
NextMgr ==
    \/ \E fn \in EnqueueLogKinds : set_enqueue_log(fn)
    \/ \E data \in OneLevel : ProcessBinance(data)
    \/ \E data \in OneLevel : ProcessCoinbaseSnapshot(data)
    \/ \E changes \in OneChange : ProcessCoinbaseChanges(changes)
    \/ \E exchange \in ExchangeNames : ProcessIgnored(exchange)

SpecMgr == InitBook /\ [][NextMgr]_vars

(***************************************************************************)
(* OrderbookManager.get_snapshot, a function of the book and n             *)
(***************************************************************************)
\* every mapping from some of the prices to a positive size
SideMaps ==
    UNION { [S -> {1, 2}] : S \in SUBSET BookPrices }
\* every book the updates can build with positive sizes
StoredBooks == {[bids |-> b, asks |-> a] : b \in SideMaps, a \in SideMaps}

\* the manager holds books built by earlier process_message calls
InitSnap ==
    /\ InitLogVars
    /\ InitScanIdle
    /\ InitSOBVars
    /\ orderbooks \in [KnownExchanges -> StoredBooks]
    /\ mgrCall = NoCall
    /\ mgrLevelwise = EmptyBook
    /\ mgrRet = NoSnapshot
    /\ mgr_enqueue_log = "none"
    /\ InitStoreVars
    /\ InitSimVars
    /\ InitNetVars

\* get_snapshot(ex, n), n being None or a number
GetSnapshot(ex, n) ==
    /\ mgrRet' = get_snapshot(orderbooks[ex], n)
    /\ mgrCall' = [op |-> "get_snapshot", ex |-> ex, kind |-> "", raised |-> FALSE,
                   spread |-> FALSE, logged |-> 0]
    /\ mgrLevelwise' = EmptyBook
    /\ UNCHANGED <<orderbooks, mgr_enqueue_log, logVars, scanVars, sobVars,
                   storeVars, simVars, netVars>>

NextSnap ==
    \E ex \in KnownExchanges, n \in {NoneVal} \cup {Num(k) : k \in 0..MaxN} : GetSnapshot(ex, n)

SpecSnap == InitSnap /\ [][NextSnap]_vars

(***************************************************************************)
(* Claims                                                                  *)
(***************************************************************************)
\* C1: on a full bounded queue an enqueue does not block: no producer is ever
\* suspended inside put; the item is dropped and counted, so after a burst of
\* N > C enqueues with no consumer progress every call has returned and the
\* drop counter equals N - C.
C1_EnqueueNeverBlocks ==
    /\ \A p \in LogProducers : prodPc[p] # "put_wait"
    /\ (written = 0 /\ putCalls > LogQueueCap) =>
          (putReturned = putCalls /\ dropped = putCalls - LogQueueCap)

(***************************************************************************)
(* Claims about the scan tick (SpecScan)                                   *)
(***************************************************************************)
\* the engine has completed the scan of at least one tick
Ticked == enginePc # "start"
\* positions of the snapshot's exchanges that have a numeric best bid and best ask
SnapValid ==
    {i \in 1..Len(books_snapshot) :
        books_snapshot[i].best_bid[1] = "num" /\ books_snapshot[i].best_ask[1] = "num"}
SnapBid(i) == books_snapshot[i].best_bid[2]
SnapAsk(i) == books_snapshot[i].best_ask[2]
\* ordered pairs of distinct valid exchanges, by position
SnapPairs == {p \in SnapValid \X SnapValid : p[1] # p[2]}
\* the (sell_ex, buy_ex) pairs the tick emitted
EmittedPairs ==
    {<<opportunities[k].sell_ex, opportunities[k].buy_ex>> : k \in 1..Len(opportunities)}
PairOf(p) == <<books_snapshot[p[1]].ex, books_snapshot[p[2]].ex>>
\* profit_pct >= threshold as the specification words it: profit_pct is
\* net_spread / net_cost, and 0 when net_cost is 0
ProfitPctAtLeastThreshold(bid, ask) ==
    LET receive == bid * (1000 - fee_sell)
        cost == ask * (1000 + fee_buy)
    IN  IF cost = 0 THEN threshold =< 0
        ELSE IF cost > 0 THEN (receive - cost) * 1000 >= threshold * cost
        ELSE (receive - cost) * 1000 =< threshold * cost

\* C2: in every scan tick the emitted opportunities are exactly the ordered
\* pairs (sell_ex, buy_ex) of distinct valid exchanges with profit_pct >=
\* threshold, each once, with the sell side's best bid and the buy side's best
\* ask; best_bid 101 on A, best_ask 100 on B, fees 0.001 and threshold 0.001
\* give an opportunity (sell=A, buy=B).
C2_EmitsExactlyProfitablePairs ==
    Ticked =>
      /\ EmittedPairs =
            {PairOf(p) : p \in {q \in SnapPairs :
                                  ProfitPctAtLeastThreshold(SnapBid(q[1]), SnapAsk(q[2]))}}
      /\ Len(opportunities) = Cardinality(EmittedPairs)
      /\ \A k \in 1..Len(opportunities) : \E p \in SnapPairs :
            /\ PairOf(p) = <<opportunities[k].sell_ex, opportunities[k].buy_ex>>
            /\ opportunities[k].sell_price = SnapBid(p[1])
            /\ opportunities[k].buy_price = SnapAsk(p[2])
      /\ (threshold = 1 /\ fee_buy = 1 /\ fee_sell = 1) =>
            \A p \in SnapPairs :
               (SnapBid(p[1]) = 101 /\ SnapAsk(p[2]) = 100) => PairOf(p) \in EmittedPairs

C2_Witness ==
    /\ Ticked
    /\ threshold = 1 /\ fee_buy = 1 /\ fee_sell = 1
    /\ \E k \in 1..Len(opportunities) :
          opportunities[k].sell_price = 101 /\ opportunities[k].buy_price = 100
    /\ \E p \in SnapPairs : PairOf(p) \notin EmittedPairs

\* every ordered pair (A, B) of distinct valid exchanges has best_ask(B) >= best_bid(A)
NoAskBelowBid == \A p \in SnapPairs : SnapAsk(p[2]) >= SnapBid(p[1])
\* every valid exchange quotes positive prices
ValidPricesPositive == \A i \in SnapValid : SnapBid(i) > 0 /\ SnapAsk(i) > 0

\* C3 (as claimed): when best_ask(B) >= best_bid(A) for every ordered pair of
\* distinct valid exchanges, the tick emits no opportunity, for every
\* non-negative threshold and fees, threshold 0 and fees 0 included. (Stated
\* here for the positive prices a venue quotes, which the claim covers.)
C3_NoOpportunityWithoutSpread ==
    (Ticked /\ NoAskBelowBid /\ ValidPricesPositive) => opportunities = <<>>

\* C3 (amended): when best_ask(B) >= best_bid(A) for every ordered pair of
\* distinct valid exchanges and the valid prices are positive, a pair is
\* emitted exactly when threshold, fee_buy and fee_sell are all 0 and
\* best_ask(B) = best_bid(A); otherwise no opportunity is emitted.
C3_NoOpportunityUnlessZeroThreshold ==
    (Ticked /\ NoAskBelowBid /\ ValidPricesPositive) =>
        \A p \in SnapPairs :
            PairOf(p) \in EmittedPairs <=>
                (threshold = 0 /\ fee_buy = 0 /\ fee_sell = 0
                 /\ SnapAsk(p[2]) = SnapBid(p[1]))

C3_Witness ==
    /\ Ticked /\ NoAskBelowBid /\ ValidPricesPositive
    /\ \E p \in SnapPairs : SnapAsk(p[2]) = SnapBid(p[1])
    /\ threshold = 1
    /\ opportunities = <<>>

\* C4: with at most one exchange holding a numeric best bid and best ask the
\* tick emits nothing, and an exchange is never paired with itself.
C4_NeedsTwoValidExchanges ==
    Ticked =>
      /\ (Cardinality(SnapValid) =< 1 => opportunities = <<>>)
      /\ \A k \in 1..Len(opportunities) :
            opportunities[k].sell_ex # opportunities[k].buy_ex

C4_Witness ==
    /\ Ticked
    /\ Len(books_snapshot) >= 2
    /\ \E i \in SnapValid : SnapValid = {i} /\ SnapBid(i) > SnapAsk(i)
    /\ threshold = 0
    /\ opportunities = <<>>

\* C5: an exchange whose best_bid or best_ask is missing or not numeric is
\* never the seller or the buyer of an emitted opportunity, and its presence
\* does not stop the valid exchanges from being evaluated in the same tick.
C5_InvalidExchangeIgnored ==
    Ticked =>
      /\ \A k \in 1..Len(opportunities) :
            \E i, j \in SnapValid :
               /\ books_snapshot[i].ex = opportunities[k].sell_ex
               /\ books_snapshot[j].ex = opportunities[k].buy_ex
      /\ (SnapValid # 1..Len(books_snapshot)) =>
            \A p \in SnapPairs :
               ProfitPctAtLeastThreshold(SnapBid(p[1]), SnapAsk(p[2]))
                  => PairOf(p) \in EmittedPairs

C5_Witness ==
    /\ Ticked
    /\ \E i \in 1..Len(books_snapshot) :
          /\ i \notin SnapValid
          /\ books_snapshot[i].best_bid[1] = "num"
    /\ opportunities # <<>>

\* C17: handing an opportunity to the sink never stalls the scan loop: the
\* engine is never suspended until a CSV append completes, so that a slow or
\* never completing write cannot keep it from its next sleep and tick.
C17_EngineNeverAwaitsSink ==
    enginePc # "append"

\* C18: a CSV append that raises does not stop arbitrage_engine: the engine
\* task is never ended by the exception.
C18_SinkFailureTolerated ==
    enginePc # "raised"

(***************************************************************************)
(* Claims about SimpleOrderBook (SpecSOB)                                  *)
(***************************************************************************)
\* the mapping of one side of a book
SideMap(book, side) == IF side = "buy" THEN book.bids ELSE book.asks
\* the last two calls were (side, p, size > 0) and then (side, p, 0)
UpsertThenDelete ==
    /\ Len(sobHist) = 2
    /\ sobHist[1].size > 0
    /\ sobHist[2].size = 0
    /\ sobHist[2].side = sobHist[1].side
    /\ sobHist[2].price = sobHist[1].price

\* C6: an update (side, p, size > 0) immediately followed by (side, p, 0)
\* leaves p absent from that side's mapping and every other price level as
\* it was before the pair of updates.
C6_UpsertThenDeleteRemoves ==
    UpsertThenDelete =>
      /\ sobHist[2].price \notin DOMAIN SideMap(sob, sobHist[2].side)
      /\ \A side \in Sides, p \in BookPrices :
            (side # sobHist[2].side \/ p # sobHist[2].price) =>
               /\ (p \in DOMAIN SideMap(sob, side)) <=> (p \in DOMAIN SideMap(sobBase, side))
               /\ p \in DOMAIN SideMap(sob, side) =>
                     SideMap(sob, side)[p] = SideMap(sobBase, side)[p]

C6_Witness ==
    /\ UpsertThenDelete
    /\ sobHist[2].price \in DOMAIN SideMap(sobBase, sobHist[2].side)
    /\ \E p \in BookPrices : p # sobHist[2].price /\ p \in DOMAIN SideMap(sob, sobHist[2].side)
    /\ sobHist[2].price \notin DOMAIN SideMap(sob, sobHist[2].side)

\* C10: every price key present in a bid or ask mapping has size > 0, after
\* any sequence of updates with positive, zero or negative sizes.
C10_StoredSizesPositive ==
    \A side \in Sides : \A p \in DOMAIN SideMap(sob, side) : SideMap(sob, side)[p] > 0

\* C12: best_bid returns the level with the maximum price of the bid mapping,
\* best_ask the level with the minimum price of the ask mapping, each with the
\* size stored for that price, and each returns None exactly when its mapping
\* is empty.
C12_BestLevels ==
    /\ sobBest.op = "best_bid" =>
          IF DOMAIN sob.bids = {} THEN sobBest.ret.none
          ELSE /\ ~sobBest.ret.none
               /\ sobBest.ret.price \in DOMAIN sob.bids
               /\ \A p \in DOMAIN sob.bids : p =< sobBest.ret.price
               /\ sobBest.ret.size = sob.bids[sobBest.ret.price]
    /\ sobBest.op = "best_ask" =>
          IF DOMAIN sob.asks = {} THEN sobBest.ret.none
          ELSE /\ ~sobBest.ret.none
               /\ sobBest.ret.price \in DOMAIN sob.asks
               /\ \A p \in DOMAIN sob.asks : p >= sobBest.ret.price
               /\ sobBest.ret.size = sob.asks[sobBest.ret.price]

C12_Witness ==
    /\ sobBest.op = "best_bid"
    /\ DOMAIN sob.bids = BookPrices
    /\ sob.bids[100] = 1
    /\ sob.bids[101] = 2
    /\ sobBest.ret = SomeLevel(101, 2)

(***************************************************************************)
(* Claims about OrderbookManager (SpecSnap, SpecBook)                      *)
(***************************************************************************)
\* prices never rise along s / never fall along s
NonIncreasing(s) == \A i \in 1..(Len(s) - 1) : s[i].price >= s[i + 1].price
NonDecreasing(s) == \A i \in 1..(Len(s) - 1) : s[i].price =< s[i + 1].price

\* C7: for every book, every exchange and every n >= 0, get_snapshot(exchange, n)
\* returns bids in non-increasing price order and asks in non-decreasing price
\* order, each list of length <= n and <= the number of levels on that side.
C7_SnapshotSortedAndBounded ==
    (mgrCall.op = "get_snapshot" /\ IsNumber(mgrRet.n)) =>
       LET n == Float(mgrRet.n)
           book == orderbooks[mgrCall.ex]
       IN  n >= 0 =>
             /\ NonIncreasing(mgrRet.bids)
             /\ NonDecreasing(mgrRet.asks)
             /\ Len(mgrRet.bids) =< n
             /\ Len(mgrRet.asks) =< n
             /\ Len(mgrRet.bids) =< Cardinality(DOMAIN book.bids)
             /\ Len(mgrRet.asks) =< Cardinality(DOMAIN book.asks)

\* C8: after process_message has handled a snapshot for an exchange, that
\* exchange's bids and asks hold exactly the snapshot's levels and nothing of
\* the prior book, however the call ended: no exit leaves the book cleared and
\* only partly refilled.
C8_SnapshotReplacesExactly ==
    (mgrCall.op = "process_message" /\ mgrCall.kind = "snapshot") =>
       orderbooks[mgrCall.ex] = mgrLevelwise

\* C9: an incremental update handled by process_message upserts each listed
\* level of size > 0 and removes each listed level of size 0, each level
\* independently of the others, and leaves every unlisted level as it was.
C9_IncrementalLevelwise ==
    (mgrCall.op = "process_message" /\ mgrCall.kind = "incremental") =>
       orderbooks[mgrCall.ex] = mgrLevelwise

\* C11: when a level of an update handled by process_message is malformed
\* (a field that is not a number, or a level missing a field), only that level
\* is dropped: the well-formed levels before and after it are applied,
\* process_message does not raise, and the spread record is produced.
C11_MalformedLevelOnlyDropped ==
    mgrCall.op = "process_message" =>
       /\ ~mgrCall.raised
       /\ mgrCall.spread
       /\ orderbooks[mgrCall.ex] = mgrLevelwise

(***************************************************************************)
(* Claims about the store, its lock and its tasks (SpecStore)              *)
(***************************************************************************)
\* the entries books holds for exchange ex (at most one)
EntriesFor(bks, ex) == {i \in 1..Len(bks) : bks[i].ex = ex}
\* the messages of exchange ex that are still to be applied: queued, or
\* dequeued by the consumer and not yet written
PendingFor(ex) ==
    {queue[i] : i \in {j \in 1..Len(queue) : ~IsIgnored(queue[j]) /\ queue[j].exchange = ex}}
    \cup (IF consPc # "get" /\ consMsg.exchange = ex THEN {consMsg} ELSE {})

\* C13: updates of one exchange are applied in the order they were put on the
\* queue. Whenever the consumer waits for its next message, books[exchange]
\* is the content of the last valid message dequeued for that exchange (and
\* absent when there was none), and every update of that exchange still to
\* be applied is newer than the stored one.
C13_AppliedInQueueOrder ==
    \A ex \in StoreProducers :
       /\ consPc = "get" =>
             IF lastDeq[ex] = NoMsg THEN EntriesFor(books, ex) = {}
             ELSE /\ EntriesFor(books, ex) # {}
                  /\ \A i \in EntriesFor(books, ex) : books[i] = StoreEntry(lastDeq[ex])
       /\ \A i \in EntriesFor(books, ex) : \A m \in PendingFor(ex) :
             m.timestamp > books[i].timestamp

C13_Witness ==
    /\ consPc = "get"
    /\ \E i \in 1..Len(books) :
          /\ books[i].ex = "okx"
          /\ books[i].timestamp = 2
          /\ books[i].best_bid = Num(100)
    /\ lastDeq["okx"].timestamp = 2
    /\ \E i \in 1..Len(books) : books[i].ex = "binance" /\ books[i].timestamp = 1
    /\ PendingFor("binance") # {}

\* C14: the best prices a scan tick evaluates are those of the store at the
\* tick's one lock acquisition; updates the consumer applies afterwards change
\* neither the copy nor the opportunities of the tick.
C14_TickUsesOneSnapshot ==
    /\ enginePc \in {"scan", "append", "sleep"} => books_snapshot = lockBooks
    /\ enginePc \in {"append", "sleep"} => opportunities = ScanTick(lockBooks)

C14_Witness ==
    /\ enginePc = "append"
    /\ opportunities # <<>>
    /\ books # lockBooks
    /\ ScanTick(books) # opportunities

\* C15: at most one of consume_queue, monitor_loop and arbitrage_engine holds
\* the lock, the holder is inside its with block and not at a queue get, a
\* sleep or a file write, and a task outside its with block does not hold
\* the lock, whichever way it left the block.
C15_LockExclusiveAndReleased ==
    /\ lock \in {"free", "consumer", "monitor", "engine"}
    /\ lock = "consumer" <=> consPc = "write"
    /\ lock = "monitor" <=> monPc = "summary"
    /\ lock = "engine" <=> enginePc = "copy"

C15_Witness ==
    /\ lock = "monitor"
    /\ books = <<>>
    /\ consPc = "acquire"
    /\ enginePc = "acquire"

\* C16: books changes only in a step of consume_queue taken while it holds
\* the lock; every other step leaves books as it is.
C16_OnlyConsumerWritesBooks ==
    [][books' # books => (consPc = "write" /\ lock = "consumer" /\ consPc' = "get")]_vars

C16_Witness ==
    /\ Len(books) = 2
    /\ enginePc = "append"
    /\ monPc = "summary"
    /\ \E i \in 1..Len(books) : books[i].timestamp = 2

(***************************************************************************)
(* Claims about TradeSimulator (SpecSim)                                   *)
(***************************************************************************)
\* C19: any two trades handle_signal records are at least COOLDOWN_SECONDS
\* apart, and a signal arriving less than COOLDOWN_SECONDS after the last
\* recorded trade is discarded: no row is written and cumulative_pnl keeps
\* its value.
C19_RecordedTradesCooldownApart ==
    /\ Len(simRows) = 2 => simRows[2] - simRows[1] >= COOLDOWN_SECONDS
    /\ (/\ simLast.outcome # "none"
        /\ simLast.rowBefore # 0
        /\ simLast.time - simLast.rowBefore < COOLDOWN_SECONDS) =>
          /\ simLast.outcome = "cooldown"
          /\ LastRow(simRows) = simLast.rowBefore
          /\ cumulative_pnl = simLast.pnlBefore

C19_Witness ==
    /\ Len(simRows) = 2
    /\ simRows[2] - simRows[1] = COOLDOWN_SECONDS
    /\ simLast.outcome = "cooldown"
    /\ simLast.time - simLast.rowBefore = COOLDOWN_SECONDS - 1
    /\ cumulative_pnl > 0

(***************************************************************************)
(* Claims about handle_stream's reconnect loop (SpecNet)                   *)
(***************************************************************************)
\* C20: after the k-th consecutive failure since its last successful
\* connection (k >= 1) handle_stream waits min(MAX_BACKOFF, 2^k) seconds plus
\* a jitter in [0, 1], k being its attempt counter; the wait never exceeds
\* MAX_BACKOFF + 1 and its part without jitter does not decrease from one
\* failure to the next.
C20_BackoffDelay ==
    \A st \in Streams :
       streamPc[st] = "backoff" =>
          /\ failures[st] >= 1
          /\ attempt[st] = failures[st]
          /\ delay[st].base = MinNum(MAX_BACKOFF, 2 ^ failures[st])
          /\ delay[st].jitter >= 0
          /\ delay[st].jitter =< 1000
          /\ delay[st].base * 1000 + delay[st].jitter =< (MAX_BACKOFF + 1) * 1000
          /\ failures[st] >= 2 => delay[st].base >= prevBase[st]

C20_Witness ==
    /\ streamPc["trades"] = "backoff"
    /\ failures["trades"] = 5
    /\ delay["trades"] = [base |-> MAX_BACKOFF, jitter |-> 1000]
    /\ prevBase["trades"] = 16
    /\ streamPc["ticker"] = "stream"

C22_HandlersIndependent ==
    [][\A st \in Streams :
          /\ (\E o \in Streams \ {st} : streamPc'[o] # streamPc[o] \/ attempt'[o] # attempt[o])
                => /\ streamPc'[st] = streamPc[st]
                   /\ attempt'[st] = attempt[st]
                   /\ failures'[st] = failures[st]
                   /\ delay'[st] = delay[st]
          /\ \A k \in {"event", "no_time"} :
                stream_message(st, k, 0)
                   => IF QueueFull(log_queue)
                      THEN streamPc'[st] = "put" /\ log_queue' = log_queue
                      ELSE streamPc'[st] = "stream" /\ log_queue' = Append(log_queue, LogLine)
          /\ stream_put_resume(st)
                => streamPc'[st] = "stream" /\ log_queue' = Append(log_queue, LogLine)
      ]_vars

C22_Witness ==
    /\ streamPc["trades"] = "backoff"
    /\ streamPc["ticker"] = "backoff"
    /\ streamPc["orderbook"] = "stream"
    /\ attempt["orderbook"] = 0
    /\ attempt["trades"] = 1
    /\ attempt["ticker"] = 1
    /\ Len(log_queue) = LogQueueCap

\* C23: a client enters its message loop only from a subscribe it has just
\* sent, and it sends a subscribe only when at least
\* SUBSCRIBE_RATE_LIMIT_SECONDS have passed since its previous one.
C23_SubscribeRateLimited ==
    [][/\ \A st \in Streams :
             /\ (streamPc[st] = "subscribe" /\ streamPc'[st] = "stream") => ~recent[st]
             /\ (streamPc[st] \notin {"stream", "put"} /\ streamPc'[st] = "stream")
                   => streamPc[st] = "subscribe"
       /\ (okxPc = "subscribe" /\ okxPc' = "stream") => ~okxRecent
       /\ (okxPc # "stream" /\ okxPc' = "stream") => okxPc = "subscribe"
      ]_vars

\* the frames C24 calls malformed
MalformedKinds == {"not_json", "json_list", "json_number", "bad_time"}
OkxMalformedKinds == {"not_json", "json_list", "json_number", "no_data", "bad_entry",
                      "bad_level", "empty_side"}

\* C24: a malformed frame is dropped: the client stays in its message loop on
\* the same connection, with no backoff, its retry counter as it was and
\* nothing put on a queue.
C24_MalformedDroppedConnectionKept ==
    [][/\ \A st \in Streams, k \in MalformedKinds, j \in Jitters :
             stream_message(st, k, j)
                => (streamPc'[st] = "stream" /\ attempt' = attempt /\ log_queue' = log_queue)
       /\ \A k \in OkxMalformedKinds :
             okx_message(k) => (okxPc' = "stream" /\ backoff' = backoff /\ queue' = queue)
      ]_vars

\* C25: while stop_event is not set a client never returns; after a failed
\* connect or subscribe and after an error in the message loop it waits and
\* then connects again, after a clean close it connects again at once, for
\* any number of consecutive failures.
C25_ClientRunsUntilStopped ==
    /\ [](\A st \in Streams : stop_event \/ streamPc[st] # "exited")
    /\ [][\A st \in Streams :
             (streamPc[st] \in {"connect", "subscribe", "stream"}
                 /\ streamPc'[st] \notin {"stream", "put", "ratelimit", "subscribe"}
                 /\ streamPc'[st] # streamPc[st])
                => streamPc'[st] \in {"connect", "backoff"}]_vars
    /\ \A st \in ClientStreams : (streamPc[st] = "backoff") ~> (streamPc[st] = "connect")
    /\ [][okxPc = "stream" /\ okxPc' # "stream" => okxPc' \in {"connect", "sleep"}]_vars
    /\ (okxPc = "sleep") ~> (okxPc = "connect")

C25_Witness ==
    /\ streamPc["trades"] = "connect"
    /\ attempt["trades"] = MaxAttempt
    /\ prevBase["trades"] = MAX_BACKOFF
    /\ okxPc = "connect"
    /\ backoff = 30
    /\ okxFailures = MaxAttempt

\* C26: once stop_event is set every handler ends and has left its
\* connection, with no further frame needed: main's cancel reaches a handler
\* at the await it is suspended in, be it the wait for a frame, the backoff
\* sleep or log_queue.put.
C26_StopEndsHandlers ==
    stop_event ~> (\A st \in Streams : streamPc[st] \in {"exited", "cancelled"})

C26_Witness ==
    /\ stop_event
    /\ streamPc["trades"] = "cancelled"
    /\ delay["trades"].base = 2
    /\ streamPc["ticker"] = "cancelled"
    /\ attempt["ticker"] = 0
    /\ recent["ticker"]
    /\ Len(log_queue) = LogQueueCap
    /\ mainPc = "gather"

\* C27: when main prints "Shutdown complete." the log queue is empty: every
\* line that was put on it has been written by async_file_writer.
C27_ShutdownFlushesLog ==
    mainPc = "complete" => log_queue = <<>>

(***************************************************************************)
(* Claims about the engine's end and its options (SpecScan, SpecConfig)    *)
(***************************************************************************)
\* C28: a cancelled arbitrage_engine leaves no tick half written: of the
\* opportunities of its last tick either none or all are in the CSV.
C28_CancelLeavesNoPartialTick ==
    enginePc = "cancelled" =>
       \/ rowIdx = 0
       \/ rowIdx - 1 = 0
       \/ rowIdx - 1 = Len(opportunities)

\* C29: no scan tick is performed with a negative threshold, fee_buy or
\* fee_sell.
C29_OptionsValidated ==
    enginePc \in {"sleep", "append", "raised", "cancelled"} =>
       (threshold >= 0 /\ fee_buy >= 0 /\ fee_sell >= 0)

(***************************************************************************)
(* Claims about the store's entries (SpecStore)                            *)
(***************************************************************************)
\* C30: an entry of OrderBookManager.books is never removed, and an entry
\* appears or changes only when consume_queue stores the update it has just
\* taken off the queue: the entry is then that update's content, the update
\* is for the entry's exchange, and it is newer than the content it replaces.
C30_EntriesOnlyReplaced ==
    [][/\ Len(books') >= Len(books)
       /\ \A i \in 1..Len(books) : books'[i].ex = books[i].ex
       /\ \A i \in 1..Len(books') :
             (i > Len(books) \/ books'[i] # books[i])
                => /\ consPc = "write"
                   /\ ~IsIgnored(consMsg)
                   /\ books'[i] = StoreEntry(consMsg)
                   /\ i =< Len(books) => books'[i].timestamp > books[i].timestamp
       /\ \A i, j \in 1..Len(books') : books'[i].ex = books'[j].ex => i = j
      ]_vars

C30_Witness ==
    /\ Len(books) = 2
    /\ books[1].ex = "okx"
    /\ books[1].timestamp = 2
    /\ books[1].best_bid = Num(100)
    /\ books[2].ex = "binance"
    /\ consPc = "get"

(***************************************************************************)
(* Claims about the manager's spread records and its frame (SpecMgr)       *)
(***************************************************************************)
\* C31: a process_message call for a known exchange that returns hands exactly
\* one spread record to the log, whichever kind of enqueue_log is installed.
C31_OneSpreadRecordPerMessage ==
    (/\ mgrCall.op = "process_message"
     /\ mgrCall.ex \in KnownExchanges
     /\ ~mgrCall.raised)
       => mgrCall.logged = 1

\* C34: process_message for one exchange leaves the book of every other
\* exchange as it was (a book changes only in a call for its own exchange), and
\* a message for an exchange that is not a key of orderbooks leaves every book
\* as it was and logs no spread record.
C34_MessageTouchesOnlyItsBook ==
    [][/\ \A e \in KnownExchanges :
             orderbooks'[e] # orderbooks[e]
                => (mgrCall'.op = "process_message" /\ mgrCall'.ex = e)
       /\ mgrCall'.kind = "ignored"
             => /\ orderbooks' = orderbooks
                /\ ~mgrCall'.spread
                /\ mgrCall'.logged = 0
      ]_vars

C34_Witness ==
    /\ mgrCall.op = "process_message"
    /\ mgrCall.ex = "okx"
    /\ orderbooks["binance"].bids # EmptyMap
    /\ orderbooks["coinbase"].bids # EmptyMap
    /\ orderbooks["binance"] # orderbooks["coinbase"]

(***************************************************************************)
(* Claims about the end of the shutdown (SpecShutTasksFair)                *)
(***************************************************************************)
\* C32: once stop_event is set, main reaches "Shutdown complete." whenever
\* every ready task is eventually run: its wait on log_queue.join() returns
\* for every interleaving of the writer, the heartbeat and the handlers.
C32_ShutdownTerminates ==
    stop_event ~> (mainPc = "complete")

C38_ReportBetweenDistinctExchanges ==
    [][monitor_summary =>
         LET r == MonitorReport(books)
         IN  r.arbitrage =>
                /\ r.sell_ex # r.buy_ex
                /\ \A i \in 1..Len(books) :
                      /\ HasNumericBid(books[i]) => Float(books[i].best_bid) =< r.best_bid
                      /\ HasNumericAsk(books[i]) => Float(books[i].best_ask) >= r.best_ask
                /\ \E i \in 1..Len(books) :
                      books[i].ex = r.sell_ex /\ books[i].best_bid = Num(r.best_bid)
                /\ \E i \in 1..Len(books) :
                      books[i].ex = r.buy_ex /\ books[i].best_ask = Num(r.best_ask)
                /\ r.best_bid > r.best_ask
      ]_vars

(***************************************************************************)
(* Claims about rejected and malformed signals (SpecSim)                   *)
(***************************************************************************)
\* C35: a signal that handle_signal does not record, because it falls inside
\* the cooldown or because its spread is below SPREAD_THRESHOLD, leaves
\* last_trade_time, trade_id and cumulative_pnl as they were.
C35_RejectedSignalChangesNothing ==
    [][\A sig \in Signals :
          (/\ handle_signal(sig[1], sig[2], sig[3])
           /\ simLast'.outcome \in {"cooldown", "below_threshold"})
             => /\ last_trade_time' = last_trade_time
                /\ trade_id' = trade_id
                /\ cumulative_pnl' = cumulative_pnl
      ]_vars

\* C36: no signal ends handle_signal: whatever a signal holds, buy_price = 0
\* or a missing field included, the task goes on to the next signal.
C36_SimulatorSurvivesAnySignal ==
    simPc = "run"

(***************************************************************************)
(* Claims about the updates run_okx puts on the queue (SpecOkx)            *)
(***************************************************************************)
\* C37: every update run_okx puts on the queue has bids and asks, its
\* best_bid is the highest price among its bids and its best_ask the lowest
\* price among its asks, in whatever order the frame lists the levels.
C37_OkxBestOfLevels ==
    [][\A bids_raw \in OkxRawSides(OkxBidPrices), asks_raw \in OkxRawSides(OkxAskPrices) :
          (okx_update(bids_raw, asks_raw) /\ OkxNormalize(bids_raw, asks_raw).put)
             => LET u == OkxNormalize(bids_raw, asks_raw)
                    m == queue'[Len(queue')]
                IN  /\ u.bids # <<>>
                    /\ u.asks # <<>>
                    /\ m.best_bid = Num(MaxOf({u.bids[i][1] : i \in 1..Len(u.bids)}))
                    /\ m.best_ask = Num(MinOf({u.asks[i][1] : i \in 1..Len(u.asks)}))
      ]_vars

====
